---- MODULE Spec2Model ----
(***************************************************************************)
(* Model of the job orchestrator of pkg/runner/run_context.go (RunContext) *)
(* and of the volume removal executor of pkg/container.                    *)
(*                                                                         *)
(* The main specifications share the variables and the step executor:     *)
(*   Spec           RunContext.Executor(): enablement gate, container      *)
(*                  start, the job's steps, teardown.                      *)
(*   SpecComposite  RunContext.CompositeExecutor() on a composite scope    *)
(*                  whose job container is already running.                *)
(*                                                                         *)
(* The combinators of pkg/common (Then, Finally, If, IfBool,               *)
(* NewPipelineExecutor, the job error container), newJobExecutor and       *)
(* setOutput are not part of the sources at hand; they follow the          *)
(* specification text (sections 4.1 and 4.2).                              *)
(***************************************************************************)
EXTENDS Integers, Sequences, FiniteSets, TLC

(* ------------------------------ bounds -------------------------------- *)

\* number of steps of the job (Spec)
NumSteps == 2
\* number of inner steps of the composite action (SpecComposite)
MaxInner == 2
\* number of runner labels of a job
MaxLabels == 2
\* number of times a caller invokes stopContainer() (SpecStop)
MaxStops == 2
\* number of jobs running concurrently (SpecJobs)
NumJobs == 2
\* number of operations on the environment of a run context (SpecEnv)
MaxEnvOps == 3
\* length of the first part and number of parts of a name (SpecName)
MaxPartLen == 4
MaxParts == 16

(* ------------------------------ values -------------------------------- *)

\* a Go nil error
Nil == <<>>

\* an error value: what failed, and for which step ("" when not a step)
Err(kind, who) == <<kind, who>>

\* how an invoked operation ended: "ok", or what failed
Res(err) == IF err = Nil THEN "ok" ELSE err[1]

\* an entry of the trace: the operation, its argument, how it ended
Op(name, arg, err) == <<name, arg, Res(err)>>

\* keys and values a step process may write to its output file
Keys == {"k1", "k2"}
Vals == {"v1"}

\* the parsed content of a key=value file: a map from some keys to values
Files == UNION {[ks -> Vals] : ks \in SUBSET Keys}

EmptyMap == [k \in {} |-> "v1"]

\* what a step process appends to its output file: nothing, or a pair for
\* every key
Writes == {f \in Files : DOMAIN f \in {{}, Keys}}

\* later entries of a key=value file win over earlier ones
Override(m, w) ==
    [k \in DOMAIN m \cup DOMAIN w |-> IF k \in DOMAIN w THEN w[k] ELSE m[k]]

\* m[k] = v for a Go map
Put(m, k, v) == [x \in DOMAIN m \cup {k} |-> IF x = k THEN v ELSE m[x]]

Last(s) == s[Len(s)]

\* the positions of s whose entry is operation op
OpPositions(s, op) == {i \in 1..Len(s) : s[i][1] = op}

(* ------------------- the executor combinators (4.1) ------------------- *)

\* Cleanup(u, c): c always runs after u; u's error wins, else c's error
Finally(err, err2) == IF err # Nil THEN err ELSE err2

\* Sequence(u1, u2) once u1 returned err: u2 is invoked only when u1 succeeded
Then(err) == err = Nil

(* ------------------- platform and enablement -------------------------- *)

Labels == {"Ubuntu-Latest", "self-hosted", "windows", "${{ os }}"}
Images == {"node:16", "${{ x }}"}

\* the expression evaluator: "${{ x }}" is an expression that yields "",
\* "${{ os }}" one that yields "Ubuntu-Latest"
Interpolate(s) ==
    CASE s = "${{ x }}" -> ""
      [] s = "${{ os }}" -> "Ubuntu-Latest"
      [] OTHER -> s

\* strings.ToLower on the labels of the model
ToLower(s) == IF s = "Ubuntu-Latest" THEN "ubuntu-latest" ELSE s

\* rc.Config.Platforms[name]; a Go map yields "" for a missing key
Platforms(name) ==
    CASE name = "ubuntu-latest" -> "node:16"
      [] name = "self-hosted" -> "-self-hosted"
      [] OTHER -> ""

RECURSIVE FirstImageLastWins(_)
\* the image of the last runner label the platform table maps
FirstImageLastWins(labels) ==
    IF labels = <<>> THEN ""
    ELSE LET image == Platforms(ToLower(Interpolate(labels[Len(labels)])))
         IN IF image # "" THEN image
            ELSE FirstImageLastWins(SubSeq(labels, 1, Len(labels) - 1))

RECURSIVE FirstImage(_)
\* the image of the first runner label the platform table maps
FirstImage(labels) ==
    IF labels = <<>> THEN ""
    ELSE LET image == Platforms(ToLower(Interpolate(Head(labels))))
         IN IF image # "" THEN image ELSE FirstImage(Tail(labels))

\* rc.platformImage()
platformImage(job) ==
    IF job.HasContainer THEN Interpolate(job.Image) ELSE FirstImage(job.RunsOn)

\* isEnabled without the check that the job resolves to a platform image
isEnabledNoImageCheck(job) == job.If = "true"

\* rc.isEnabled(ctx); job.If is the result of EvalBool on the job's condition
isEnabled(job) ==
    IF job.If = "error" THEN FALSE
    ELSE IF job.If = "false" THEN FALSE
    ELSE IF platformImage(job) = "" THEN FALSE
    ELSE TRUE

RECURSIVE SeqsUpTo(_, _)
\* the sequences over S of length at most n
SeqsUpTo(S, n) ==
    IF n = 0 THEN {<<>>}
    ELSE LET shorter == SeqsUpTo(S, n - 1)
         IN shorter \cup {Append(q, x) : q \in shorter, x \in S}

\* the job definitions Executor() is run on
Jobs ==
    [If : {"true", "false", "error"}, HasContainer : BOOLEAN,
     Image : Images, RunsOn : SeqsUpTo(Labels, MaxLabels)]

(* ------------------- deterministic naming ----------------------------- *)

\* a string is a sequence of characters; the characters [a-zA-Z0-9] of the
\* strings considered
Digits == {"0", "1", "2", "3", "4", "5", "6", "7", "8", "9"}
Letters == {"a", "b", "c", "j", "t", "w", "A", "B"}
AlphaNum == Letters \cup Digits

\* a string written as a TLA+ string, for the values shown in traces
RECURSIVE Str(_)
Str(s) == IF s = <<>> THEN "" ELSE s[1] \o Str(Tail(s))

\* pattern.ReplaceAllString(part, "-") for the pattern [^a-zA-Z0-9]
ReplaceAllString(part) ==
    [i \in 1..Len(part) |-> IF part[i] \in AlphaNum THEN part[i] ELSE "-"]

\* re.FindStringSubmatch(part) for the expression -[0-9]+$ : the match, or
\* the empty sequence when there is none
FindStringSubmatch(part) ==
    LET starts == {i \in 1..Len(part) :
                      /\ part[i] = "-"
                      /\ i < Len(part)
                      /\ \A j \in (i + 1)..Len(part) : part[j] \in Digits}
    IN IF starts = {} THEN <<>>
       ELSE LET i == CHOOSE x \in starts : \A y \in starts : x <= y
            IN SubSeq(part, i, Len(part))

\* trimToLen(s, l)
trimToLen(str, l) ==
    LET n == IF l < 0 THEN 0 ELSE l
    IN IF Len(str) > n THEN SubSeq(str, 1, n) ELSE str

RECURSIVE Join(_)
\* strings.Join(name, "-")
Join(name) ==
    IF name = <<>> THEN <<>>
    ELSE IF Len(name) = 1 THEN name[1]
    ELSE name[1] \o <<"-">> \o Join(Tail(name))

RECURSIVE TrimLeft(_)
TrimLeft(str) ==
    IF str # <<>> /\ str[1] = "-" THEN TrimLeft(Tail(str)) ELSE str

RECURSIVE TrimRight(_)
TrimRight(str) ==
    IF str # <<>> /\ str[Len(str)] = "-"
    THEN TrimRight(SubSeq(str, 1, Len(str) - 1)) ELSE str

\* strings.Trim(s, "-")
Trim(str) == TrimRight(TrimLeft(str))

RECURSIVE ReplaceAll(_)
\* strings.ReplaceAll(s, "--", "-"): the occurrences are found from left to
\* right and do not overlap, the result is not scanned again
ReplaceAll(str) ==
    IF Len(str) < 2 THEN str
    ELSE IF str[1] = "-" /\ str[2] = "-"
    THEN <<"-">> \o ReplaceAll(SubSeq(str, 3, Len(str)))
    ELSE <<str[1]>> \o ReplaceAll(Tail(str))

\* the elements createContainerName appends to name for part i
NameElems(parts, i) ==
    LET partLen == (30 \div Len(parts)) - 1
        part == parts[i]
        num == FindStringSubmatch(part)
    IN IF i = Len(parts) THEN <<ReplaceAllString(part)>>
       ELSE IF Len(num) > 0
       THEN <<trimToLen(ReplaceAllString(part), partLen - Len(num)), num>>
       ELSE <<trimToLen(ReplaceAllString(part), partLen)>>

RECURSIVE NameList(_, _)
\* the slice name after the loop of createContainerName reached part i
NameList(parts, i) ==
    IF i = 0 THEN <<>> ELSE NameList(parts, i - 1) \o NameElems(parts, i)

\* createContainerName(parts...)
createContainerName(parts) ==
    ReplaceAll(Trim(Join(NameList(parts, Len(parts)))))

(* ------------------- Stop: container and volume removal --------------- *)

\* what the daemon does with one volume removal
VolOutcomes == {"ok", "listErr", "rmErr", "dryrun"}

\* container.removeExecutor(volume, false): nothing under dry run, else
\* VolumeRemove at the daemon, which fails for a volume the daemon does not
\* have
removeExecutor(volume, vols, out) ==
    IF out = "dryrun" THEN [err |-> Nil, volumes |-> vols]
    ELSE IF out = "rmErr" \/ volume \notin vols
    THEN [err |-> Err("VolumeRemove", volume), volumes |-> vols]
    ELSE [err |-> Nil, volumes |-> vols \ {volume}]

\* container.NewDockerVolumeRemoveExecutor(volume, false): the volume is
\* looked up in the volume list and removed when it is listed
NewDockerVolumeRemoveExecutor(volume, vols, out) ==
    IF out = "listErr" THEN [err |-> Err("VolumeList", volume), volumes |-> vols]
    ELSE IF volume \notin vols THEN [err |-> Nil, volumes |-> vols]
    ELSE removeExecutor(volume, vols, out)

StopInputs ==
    {i \in [removeOk : BOOLEAN, main : VolOutcomes, env : VolOutcomes] :
        ~i.removeOk => (i.main = "ok" /\ i.env = "ok")}

\* stopJobContainer with the two volume removals chained by Then: the "-env"
\* volume is left alone once the removal of the main volume failed
stopJobContainerThen(jc, cfg, local, ce, vols, in) ==
    IF jc # "nil" /\ ~cfg.ReuseContainers
    THEN IF ~in.removeOk
         THEN LET err == Err("Remove", "")
              IN [err |-> err,
                  ops |-> <<Op("Stop", "", err), Op("Remove", "", err)>>,
                  containerExists |-> ce, volumes |-> vols]
         ELSE IF ~local
         THEN LET m == NewDockerVolumeRemoveExecutor("main", vols, in.main)
                  e == NewDockerVolumeRemoveExecutor("env", m.volumes, in.env)
              IN IF m.err # Nil
                 THEN [err |-> m.err,
                       ops |-> <<Op("Stop", "", m.err), Op("Remove", "", Nil),
                                 Op("VolumeRemove", "main", m.err)>>,
                       containerExists |-> FALSE, volumes |-> m.volumes]
                 ELSE [err |-> e.err,
                       ops |-> <<Op("Stop", "", e.err), Op("Remove", "", Nil),
                                 Op("VolumeRemove", "main", m.err),
                                 Op("VolumeRemove", "env", e.err)>>,
                       containerExists |-> FALSE, volumes |-> e.volumes]
         ELSE [err |-> Nil, ops |-> <<Op("Stop", "", Nil), Op("Remove", "", Nil)>>,
               containerExists |-> FALSE, volumes |-> vols]
    ELSE [err |-> Nil, ops |-> <<Op("Stop", "", Nil)>>, containerExists |-> ce,
          volumes |-> vols]

\* rc.stopJobContainer(): the operations invoked (ops, "Stop" being the call
\* itself), the error returned and the containers and volumes left
stopJobContainer(jc, cfg, local, ce, vols, in) ==
    IF jc # "nil" /\ ~cfg.ReuseContainers
    THEN IF ~in.removeOk
         THEN LET err == Err("Remove", "")
              IN [err |-> err,
                  ops |-> <<Op("Stop", "", err), Op("Remove", "", err)>>,
                  containerExists |-> ce, volumes |-> vols]
         ELSE IF ~local
         THEN LET m == NewDockerVolumeRemoveExecutor("main", vols, in.main)
                  e == NewDockerVolumeRemoveExecutor("env", m.volumes, in.env)
                  err == Finally(m.err, e.err)
              IN [err |-> err,
                  ops |-> <<Op("Stop", "", err), Op("Remove", "", Nil),
                            Op("VolumeRemove", "main", m.err),
                            Op("VolumeRemove", "env", e.err)>>,
                  containerExists |-> FALSE, volumes |-> e.volumes]
         ELSE [err |-> Nil, ops |-> <<Op("Stop", "", Nil), Op("Remove", "", Nil)>>,
               containerExists |-> FALSE, volumes |-> vols]
    ELSE [err |-> Nil, ops |-> <<Op("Stop", "", Nil)>>, containerExists |-> ce,
          volumes |-> vols]

\* the teardown of Executor() runs under context.Background(): no dry run
TeardownInputs ==
    [stop : {i \in StopInputs : i.main # "dryrun" /\ i.env # "dryrun"},
     closeOk : BOOLEAN]

\* context.Background(): never cancelled
Background == [cancelled |-> FALSE]

\* the Finally callback keeping the context it was invoked with
TeardownContextOfJob(ctx) == ctx

\* the context the Finally callback of Executor() works under:
\* ctx := context.Background()
TeardownContext(ctx) == Background

\* rc.stopJobContainer()(ctx): the daemon calls of a removal made under a
\* cancelled context fail with the error of the context and remove nothing
RunStopJobContainer(ctx, jc, cfg, local, ce, vols, in) ==
    IF ctx.cancelled /\ jc # "nil" /\ ~cfg.ReuseContainers
    THEN LET err == Err("ctx", "")
         IN [err |-> err,
             ops |-> <<Op("Stop", "", err), Op("Remove", "", err)>>,
             containerExists |-> ce, volumes |-> vols]
    ELSE stopJobContainer(jc, cfg, local, ce, vols, in)

\* the Finally callback closing the container only under auto-removal
ExecutorFinallyCloseOnAutoRemove(jc, cfg, local, ce, vols, in, ctx) ==
    IF jc # "nil" /\ cfg.AutoRemove
    THEN LET s == RunStopJobContainer(TeardownContext(ctx), jc, cfg, local,
                                      ce, vols, in.stop)
             close == IF in.closeOk THEN Nil ELSE Err("Close", "")
         IN [err |-> close, stopErr |-> s.err,
             ops |-> s.ops \o <<Op("Close", "", close)>>,
             containerExists |-> s.containerExists, volumes |-> s.volumes]
    ELSE [err |-> Nil, stopErr |-> Nil, ops |-> <<>>, containerExists |-> ce,
          volumes |-> vols]

\* the Finally callback of rc.Executor(), invoked with the context ctx of the
\* job: a Stop error is logged (stopErr), the error of Close is returned (err)
ExecutorFinally(jc, cfg, local, ce, vols, in, ctx) ==
    IF jc # "nil"
    THEN LET s == IF cfg.AutoRemove
                  THEN RunStopJobContainer(TeardownContext(ctx), jc, cfg,
                                           local, ce, vols, in.stop)
                  ELSE [err |-> Nil, ops |-> <<>>, containerExists |-> ce,
                        volumes |-> vols]
             close == IF in.closeOk THEN Nil ELSE Err("Close", "")
         IN [err |-> close,
             stopErr |-> s.err,
             ops |-> s.ops \o <<Op("Close", "", close)>>,
             containerExists |-> s.containerExists, volumes |-> s.volumes]
    ELSE [err |-> Nil, stopErr |-> Nil, ops |-> <<>>, containerExists |-> ce,
          volumes |-> vols]

(* ------------------- the step executor -------------------------------- *)

\* model.StepResult
StepResult(outcome, conclusion, outputs) ==
    [Outcome |-> outcome, Conclusion |-> conclusion, Outputs |-> outputs]

\* what the collaborators of one step execution do: the step's condition, the
\* environment setup, the reset of the command files, the step body and what
\* it appends to the output file, and the read-back of the output file
StepInputs ==
    LET all == [cond : {"true", "false", "error"}, setupOk : BOOLEAN,
                copyOk : BOOLEAN, bodyOk : BOOLEAN, writes : Writes,
                readOk : BOOLEAN]
        \* what is not consulted is left at a fixed value
        unread(i) == i.copyOk /\ i.bodyOk /\ i.writes = EmptyMap /\ i.readOk
    IN {i \in all : /\ i.cond # "true" => (i.setupOk /\ unread(i))
                    /\ ~i.setupOk => unread(i)}

\* rc.setOutput for the current step
setOutput(sr, id, k, v) ==
    [sr EXCEPT ![id].Outputs = Put(sr[id].Outputs, k, v)]

RECURSIVE setOutputs(_, _, _)
\* the loop publishing every parsed pair
setOutputs(sr, id, output) ==
    IF DOMAIN output = {} THEN sr
    ELSE LET k == CHOOSE x \in DOMAIN output : TRUE
         IN setOutputs(setOutput(sr, id, k, output[k]), id,
                       [x \in DOMAIN output \ {k} |-> output[x]])

\* continue-on-error that forgets to clear the error
StepBodyResultKeepErr(sr, step, bodyErr) ==
    IF bodyErr = Nil THEN [err |-> Nil, StepResults |-> sr]
    ELSE IF step.ContinueOnError
    THEN [err |-> bodyErr,
          StepResults |-> [sr EXCEPT ![step.ID].Outcome = "failure",
                                     ![step.ID].Conclusion = "success"]]
    ELSE [err |-> bodyErr,
          StepResults |-> [sr EXCEPT ![step.ID].Outcome = "failure",
                                     ![step.ID].Conclusion = "failure"]]

\* a failure without continue-on-error that leaves the conclusion untouched
StepBodyResultNoConclusion(sr, step, bodyErr) ==
    IF bodyErr = Nil THEN [err |-> Nil, StepResults |-> sr]
    ELSE IF step.ContinueOnError
    THEN [err |-> Nil,
          StepResults |-> [sr EXCEPT ![step.ID].Outcome = "failure",
                                     ![step.ID].Conclusion = "success"]]
    ELSE [err |-> bodyErr,
          StepResults |-> [sr EXCEPT ![step.ID].Outcome = "failure"]]

\* newStepExecutor after the step body returned bodyErr: outcome, conclusion
\* and the error kept (err)
StepBodyResult(sr, step, bodyErr) ==
    IF bodyErr = Nil THEN [err |-> Nil, StepResults |-> sr]
    ELSE IF step.ContinueOnError
    THEN [err |-> Nil,
          StepResults |-> [sr EXCEPT ![step.ID].Outcome = "failure",
                                     ![step.ID].Conclusion = "success"]]
    ELSE [err |-> bodyErr,
          StepResults |-> [sr EXCEPT ![step.ID].Outcome = "failure",
                                     ![step.ID].Conclusion = "failure"]]

\* the read-back returning a kept step error before publishing the outputs
ProcessFileCommandsEarlyReturn(sr, step, orgerr, file, readOk) ==
    IF ~readOk THEN [err |-> Err("read", step.ID), StepResults |-> sr]
    ELSE IF orgerr # Nil THEN [err |-> orgerr, StepResults |-> sr]
    ELSE [err |-> orgerr, StepResults |-> setOutputs(sr, step.ID, file)]

\* the read-back returning a kept step error rather than the read error
ProcessFileCommandsStepErrFirst(sr, step, orgerr, file, readOk) ==
    IF orgerr # Nil
    THEN [err |-> orgerr,
          StepResults |-> IF readOk THEN setOutputs(sr, step.ID, file) ELSE sr]
    ELSE IF ~readOk THEN [err |-> Err("read", step.ID), StepResults |-> sr]
    ELSE [err |-> orgerr, StepResults |-> setOutputs(sr, step.ID, file)]

\* newStepExecutor, "Process Runner File Commands": read the output file
\* back, publish its pairs, return the read error or else the kept error
ProcessFileCommands(sr, step, orgerr, file, readOk) ==
    IF ~readOk THEN [err |-> Err("read", step.ID), StepResults |-> sr]
    ELSE [err |-> orgerr, StepResults |-> setOutputs(sr, step.ID, file)]

\* the step executor staging the command files before it looks at the
\* step's condition
newStepExecutorStageFirst(sr, file, step, in) ==
    LET sr0 == Put(sr, step.ID, StepResult("success", "success", EmptyMap))
    IN IF in.cond = "error"
       THEN [err |-> Err("cond", step.ID),
             StepResults |-> [sr0 EXCEPT ![step.ID].Conclusion = "failure",
                                         ![step.ID].Outcome = "failure"],
             CurrentStep |-> step.ID, file |-> EmptyMap, ran |-> FALSE]
       ELSE IF in.cond = "false"
       THEN [err |-> Nil,
             StepResults |-> [sr0 EXCEPT ![step.ID].Conclusion = "skipped",
                                         ![step.ID].Outcome = "skipped"],
             CurrentStep |-> step.ID, file |-> EmptyMap, ran |-> FALSE]
       ELSE IF ~in.setupOk
       THEN [err |-> Err("setup", step.ID), StepResults |-> sr0,
             CurrentStep |-> step.ID, file |-> EmptyMap, ran |-> FALSE]
       ELSE LET after == Override(EmptyMap, in.writes)
                b == StepBodyResult(sr0, step,
                        IF in.bodyOk THEN Nil ELSE Err("body", step.ID))
                r == ProcessFileCommands(b.StepResults, step, b.err, after,
                                         in.readOk)
            IN [err |-> r.err, StepResults |-> r.StepResults,
                CurrentStep |-> step.ID, file |-> after, ran |-> TRUE]

\* the executor rc.newStepExecutor(step) returns, run on step results sr and
\* output file content file: the error returned, the step results, the
\* current step, the output file, and whether the step body was run
newStepExecutor(sr, file, step, in) ==
    LET sr0 == Put(sr, step.ID, StepResult("success", "success", EmptyMap))
    IN IF in.cond = "error"
       THEN [err |-> Err("cond", step.ID),
             StepResults |-> [sr0 EXCEPT ![step.ID].Conclusion = "failure",
                                         ![step.ID].Outcome = "failure"],
             CurrentStep |-> step.ID, file |-> file, ran |-> FALSE]
       ELSE IF in.cond = "false"
       THEN [err |-> Nil,
             StepResults |-> [sr0 EXCEPT ![step.ID].Conclusion = "skipped",
                                         ![step.ID].Outcome = "skipped"],
             CurrentStep |-> step.ID, file |-> file, ran |-> FALSE]
       ELSE IF ~in.setupOk
       THEN [err |-> Err("setup", step.ID), StepResults |-> sr0,
             CurrentStep |-> step.ID, file |-> file, ran |-> FALSE]
       ELSE LET reset == IF in.copyOk THEN EmptyMap ELSE file
                after == Override(reset, in.writes)
                b == StepBodyResult(sr0, step,
                        IF in.bodyOk THEN Nil ELSE Err("body", step.ID))
                r == ProcessFileCommands(b.StepResults, step, b.err, after,
                                         in.readOk)
            IN [err |-> r.err, StepResults |-> r.StepResults,
                CurrentStep |-> step.ID, file |-> after, ran |-> TRUE]

\* a declared step: its id ("" when none is declared) and continue-on-error
StepIDs == {"", "1"}
StepDefs == [ID : StepIDs, ContinueOnError : BOOLEAN]

\* the loop of CompositeExecutor giving a step without id its index as id
AssignIDs(declared) ==
    [i \in 1..Len(declared) |->
        IF declared[i].ID = ""
        THEN [declared[i] EXCEPT !.ID = ToString(i - 1)]
        ELSE declared[i]]

\* the step unit recording the outcome of the latest step only
CompositeStepUnitClears(err, ctxErr, jobErr) ==
    IF err # Nil THEN [ret |-> Nil, jobErr |-> err]
    ELSE IF ctxErr # Nil THEN [ret |-> Nil, jobErr |-> ctxErr]
    ELSE [ret |-> Nil, jobErr |-> Nil]

\* one step unit of CompositeExecutor once the step executor returned err:
\* the job error recorded and the error the unit returns
CompositeStepUnit(err, ctxErr, jobErr) ==
    IF err # Nil THEN [ret |-> Nil, jobErr |-> err]
    ELSE IF ctxErr # Nil THEN [ret |-> Nil, jobErr |-> ctxErr]
    ELSE [ret |-> Nil, jobErr |-> jobErr]

\* ctx.Err()
CtxErr(c) == IF c THEN Err("ctx", "") ELSE Nil

\* common.NewPipelineExecutor between two of its units: the error that ends
\* the pipeline there, the unit's own or else the error of a cancelled
\* context; Nil when the pipeline goes on with the next unit
PipelineEnds(err, ctxErr) == IF ~Then(err) THEN err ELSE ctxErr

(* ------------------------------ state --------------------------------- *)

VARIABLES
    pc,               \* position of the executor that is running
    Config,           \* rc.Config, shared by the jobs of a run: ReuseContainers,
                      \* AutoRemove, BindWorkdir, ContainerDaemonSocket
    jobIf,            \* result of evaluating the job's condition
    image,            \* rc.platformImage()
    enabled,          \* result of rc.isEnabled
    JobContainer,     \* rc.JobContainer: "nil", "docker" or "host"
    Local,            \* rc.Local
    containerExists,  \* the daemon has a container of this job's name
    volumes,          \* the named volumes of this job the daemon has
    copyWorkspace,    \* local of startJobContainer
    unitIdx,          \* the unit of the start pipeline to run next
    steps,            \* the steps of the running pipeline, ids assigned
    stepIdx,          \* the step to run next
    CurrentStep,      \* rc.CurrentStep
    StepResults,      \* rc.StepResults
    file,             \* content of the output command file in the job container
    cancelled,        \* the job's context is cancelled
    jobErr,           \* the job error container of the composite pipeline
    pipeErr,          \* result of the pipeline the teardown is attached to
    result,           \* the error the top-level executor returned
    trace,            \* the operations invoked so far, in order
    last,             \* the latest step execution: inputs and returned error
    returned,         \* per executed step: error returned, ctx.Err() after it
    logged,           \* the errors the teardown logged instead of returning
    stopBefore,       \* the volumes the daemon had when Stop was last invoked
    jobs,             \* concurrent sibling jobs: the name and the phase of each
    containers,       \* the containers the daemon has: name and owning job
    namedVolumes,     \* the per-job volumes the daemon has: name and owning job
    Env,              \* rc.Env: nil, or the memoized environment
    envLayers,        \* Config.Env, Workflow.Env and the job environment
    args,             \* the arguments of the function being evaluated
    ret,              \* what the function being evaluated returned
    heap,             \* the mappings allocated so far, a reference is a position
    contexts          \* the run contexts, the parent first, then its clones

vars ==
    <<pc, Config, jobIf, image, enabled, JobContainer, Local, containerExists,
      volumes, copyWorkspace, unitIdx, steps, stepIdx, CurrentStep,
      StepResults, file, cancelled, jobErr, pipeErr, result, trace, last,
      returned, logged, stopBefore,
      jobs, containers, namedVolumes, Env, envLayers, args, ret,
      heap, contexts>>

\* rc.Env before the first GetEnv(): a nil map
NilEnv == [nil |-> TRUE, map |-> EmptyMap]

\* no environment declared at any level
NoLayers == [global |-> EmptyMap, workflow |-> EmptyMap, job |-> EmptyMap]

\* the variables of the environments considered: the marker and another one
EnvKeys == {"ACT", "K"}

\* the environments a level declares: some of the variables, with the value
\* val
EnvMaps(val) == UNION {[ks -> {val}] : ks \in SUBSET EnvKeys}

RECURSIVE mergeMaps(_)
\* mergeMaps(maps...): the entries of a later map replace those of the
\* earlier ones
mergeMaps(maps) ==
    IF maps = <<>> THEN EmptyMap
    ELSE Override(mergeMaps(SubSeq(maps, 1, Len(maps) - 1)), maps[Len(maps)])

\* GetEnv merging the three levels at every call
GetEnvRemerge(env, layers) ==
    Put(mergeMaps(<<layers.global, layers.workflow, layers.job>>),
        "ACT", "true")

\* rc.GetEnv(): the map returned, which is rc.Env after the call
GetEnv(env, layers) ==
    LET m == IF env.nil
             THEN mergeMaps(<<layers.global, layers.workflow, layers.job>>)
             ELSE env.map
    IN Put(m, "ACT", "true")

\* strings.Index(env, "="): the position, from 0, of the first "=" of env, or
\* -1 when it has none
IndexEq(env) ==
    IF \E i \in 1..Len(env) : env[i] = "="
    THEN (CHOOSE i \in 1..Len(env) :
              env[i] = "=" /\ \A k \in 1..(i - 1) : env[k] # "=") - 1
    ELSE -1

RECURSIVE SetEnviron(_, _)
\* the loop over os.Environ() of startJobContainer: an entry name=value with
\* a name that is not empty is set in the map, the others are passed over
SetEnviron(m, environ) ==
    IF environ = <<>> THEN m
    ELSE LET env == Head(environ)
             i == IndexEq(env)
         IN SetEnviron(IF i > 0
                       THEN Put(m, Str(SubSeq(env, 1, i)),
                                Str(SubSeq(env, i + 2, Len(env))))
                       ELSE m,
                       Tail(environ))

\* the variables startJobContainer sets in rc.Env in host mode, rc.Env being
\* the map m: the four RUNNER_ variables, then the environment of the process
HostEnv(m, goos, environ) ==
    SetEnviron(Put(Put(Put(Put(m, "RUNNER_TOOL_CACHE", "tool_cache"),
                           "RUNNER_OS", goos),
                       "RUNNER_ARCH", "GOARCH"),
                   "RUNNER_TEMP", "tmp"),
               environ)

\* UpdateFromImageEnv(&rc.Env) and UpdateFromEnv(path, &rc.Env) of the
\* container: the variable kv of the image or of the file is set in rc.Env
UpdateFromEnv(env, kv) == [nil |-> FALSE, map |-> Put(env.map, kv[1], kv[2])]

\* runtime.GOOS of the build
GOOS == "linux"

\* os.Environ() of the process: entries name=value, an entry without name
\* and an entry without "="
Environ == << <<"H", "=", "/">>, <<"=", "C", "=", "x">>, <<"N">> >>

\* what the image declares and what /etc/environment of the image holds
ImageEnv == <<"K", "s">>
FileEnv == <<"ACT", "false">>

\* Config.ContainerDaemonSocket: not set, or the socket of some daemon
Sockets == {"", "/custom.sock"}

Configs ==
    [ReuseContainers : BOOLEAN, AutoRemove : BOOLEAN, BindWorkdir : BOOLEAN,
     ContainerDaemonSocket : Sockets]

VolumeNames == {"main", "env"}

NoStep ==
    [idx |-> 0, step |-> [ID |-> "", ContinueOnError |-> FALSE],
     cond |-> "false", ran |-> FALSE, bodyOk |-> TRUE, writes |-> EmptyMap,
     readOk |-> TRUE, err |-> Nil]

\* the record of a step execution kept in last
StepRecord(i, step, in, r) ==
    [idx |-> i, step |-> step, cond |-> in.cond, ran |-> r.ran,
     bodyOk |-> in.bodyOk, writes |-> in.writes, readOk |-> in.readOk,
     err |-> r.err]

\* the state before Executor() of a job with NumSteps steps is invoked
Init ==
    /\ pc = "init"
    /\ Config \in Configs
    /\ jobIf = "true"
    /\ image = ""
    /\ enabled = FALSE
    /\ JobContainer = "nil"
    /\ Local = FALSE
    /\ volumes \in {{}, VolumeNames}
    /\ containerExists = (volumes # {})
    /\ copyWorkspace = FALSE
    /\ unitIdx = 1
    /\ steps \in {AssignIDs(d) : d \in [1..NumSteps -> [ID : {""}, ContinueOnError : BOOLEAN]]}
    /\ stepIdx = 1
    /\ CurrentStep = ""
    /\ StepResults = EmptyMap
    /\ file = EmptyMap
    /\ cancelled = FALSE
    /\ jobErr = Nil
    /\ pipeErr = Nil
    /\ result = Nil
    /\ trace = <<>>
    /\ last = NoStep
    /\ returned = <<>>
    /\ logged = <<>>
    /\ stopBefore = {}
    /\ jobs = <<>>
    /\ containers = {}
    /\ namedVolumes = {}
    \* the expression evaluator of the context, which isEnabled and
    \* platformImage consult, was built from GetEnv()
    /\ Env = [nil |-> FALSE, map |-> GetEnv(NilEnv, NoLayers)]
    /\ envLayers = NoLayers
    /\ args = <<>>
    /\ ret = <<>>
    /\ heap = <<>>
    /\ contexts = <<>>

(* ------------------------------ Executor() ----------------------------- *)

\* the guard If(rc.isEnabled) of Executor(): a disabled job returns success
\* without running anything
ExecutorIsEnabled ==
    /\ pc = "init"
    /\ \E job \in Jobs :
        /\ jobIf' = job.If
        /\ image' = platformImage(job)
        /\ enabled' = isEnabled(job)
        /\ pc' = IF isEnabled(job) THEN "start" ELSE "done"
    /\ result' = Nil
    /\ UNCHANGED <<Config, JobContainer, Local, containerExists, volumes,
                   copyWorkspace, unitIdx, steps, stepIdx, CurrentStep,
                   StepResults, file, cancelled, jobErr, pipeErr, trace, last,
                   returned, logged, stopBefore>>
    /\ UNCHANGED <<jobs, containers, namedVolumes, Env, envLayers, args, ret>>
    /\ UNCHANGED <<heap, contexts>>

\* the start pipeline creating the container before the stale one is removed
StartUnitsCreateFirst ==
    <<"Pull", "Create", "Stop", "Start", "UpdateFromImageEnv", "UpdateFromEnv",
      "Exec", "CopyDir", "Copy">>

\* the units of the pipeline startJobContainer runs, container mode
StartUnits ==
    <<"Pull", "Stop", "Create", "Start", "UpdateFromImageEnv", "UpdateFromEnv",
      "Exec", "CopyDir", "Copy">>

\* the units of the pipeline startJobContainer runs, host mode
HostUnits == <<"CopyDir", "Copy">>

Units(local) == IF local THEN HostUnits ELSE StartUnits

\* the named volumes among the mounts of GetBindsAndMounts
GetMounts(cfg) == IF cfg.BindWorkdir THEN {"env"} ELSE {"main", "env"}

\* the modifier of the bind of the working directory
bindModifiers(goos, selinux) ==
    IF selinux THEN ":z"
    ELSE IF goos = "darwin" THEN ":delegated"
    ELSE ""

\* rc.GetBindsAndMounts(): the binds (the daemon socket, and the working
\* directory when it is bound), the named volumes mounted, and rc.Config as
\* the call leaves it
GetBindsAndMounts(cfg, goos, selinux) ==
    LET c == IF cfg.ContainerDaemonSocket = ""
             THEN [cfg EXCEPT !.ContainerDaemonSocket = "/var/run/docker.sock"]
             ELSE cfg
        socket == c.ContainerDaemonSocket \o ":/var/run/docker.sock"
    IN [Config |-> c,
        binds |-> IF cfg.BindWorkdir
                  THEN <<socket,
                         "Workdir:ContainerWorkdir"
                             \o bindModifiers(goos, selinux)>>
                  ELSE <<socket>>,
        mounts |-> GetMounts(cfg) \cup {"act-toolcache"}]

\* startJobContainer up to its pipeline: credentials and the container handle
\* (container mode), or the scratch directories, the host handle and the
\* variables of the host in rc.Env (host mode); a write to rc.Env while it is
\* nil is a run-time panic
startJobContainer(img, cfg, env, in) ==
    IF img = "-self-hosted"
    THEN IF ~in.mkdirOk
         THEN [err |-> Err("MkdirAll", ""), JobContainer |-> "nil", Local |-> FALSE,
               copyWorkspace |-> FALSE, Config |-> cfg, Env |-> env,
               panic |-> FALSE]
         ELSE IF env.nil
         THEN [err |-> Err("panic", ""), JobContainer |-> "host", Local |-> TRUE,
               copyWorkspace |-> ~cfg.BindWorkdir /\ in.checkout,
               Config |-> cfg, Env |-> env, panic |-> TRUE]
         ELSE [err |-> Nil, JobContainer |-> "host", Local |-> TRUE,
               copyWorkspace |-> ~cfg.BindWorkdir /\ in.checkout,
               Config |-> cfg,
               Env |-> [nil |-> FALSE,
                        map |-> HostEnv(env.map, GOOS, Environ)],
               panic |-> FALSE]
    ELSE IF ~in.credsOk
         THEN [err |-> Err("handleCredentials", ""), JobContainer |-> "nil",
               Local |-> FALSE, copyWorkspace |-> FALSE, Config |-> cfg,
               Env |-> env, panic |-> FALSE]
         ELSE LET bm == GetBindsAndMounts(cfg, GOOS, in.selinux)
              IN IF ~in.created
                 THEN [err |-> Err("NewContainer", ""), JobContainer |-> "nil",
                       Local |-> FALSE, copyWorkspace |-> FALSE,
                       Config |-> bm.Config, Env |-> env, panic |-> FALSE]
                 ELSE [err |-> Nil, JobContainer |-> "docker", Local |-> FALSE,
                       copyWorkspace |-> ~cfg.BindWorkdir /\ in.checkout,
                       Config |-> bm.Config, Env |-> env, panic |-> FALSE]

\* what startJobContainer finds: the results of MkdirAll, handleCredentials,
\* NewContainer, localCheckoutPath and selinux.GetEnabled()
StartInputs ==
    [mkdirOk : BOOLEAN, credsOk : BOOLEAN, created : BOOLEAN, checkout : BOOLEAN,
     selinux : BOOLEAN]

\* first unit of the job pipeline: startJobContainer before its own pipeline;
\* a panic ends the run where it is
StartJobContainer ==
    /\ pc = "start"
    /\ \E in \in StartInputs :
        LET r == startJobContainer(image, Config, Env, in)
        IN /\ JobContainer' = r.JobContainer
           /\ Local' = r.Local
           /\ copyWorkspace' = r.copyWorkspace
           /\ Config' = r.Config
           /\ Env' = r.Env
           /\ pipeErr' = r.err
           /\ pc' = IF r.panic THEN "panic"
                    ELSE IF Then(r.err) THEN "startPipe" ELSE "teardown"
    /\ unitIdx' = 1
    /\ UNCHANGED <<jobIf, image, enabled, containerExists, volumes,
                   steps, stepIdx, CurrentStep, StepResults, file, cancelled,
                   jobErr, result, trace, last, returned, logged, stopBefore>>
    /\ UNCHANGED <<jobs, containers, namedVolumes, envLayers, args, ret>>
    /\ UNCHANGED <<heap, contexts>>

\* where the job pipeline goes once unit number i of the start pipeline
\* returned err: the first failure aborts the pipeline
AfterUnit(i, n, err) ==
    IF ~Then(err) THEN "teardown"
    ELSE IF i = n THEN "steps"
    ELSE "startPipe"

\* one container operation of the start pipeline; UpdateFromImageEnv and
\* UpdateFromEnv set in rc.Env what the image and its /etc/environment hold
StartUnit ==
    /\ pc = "startPipe"
    /\ Units(Local)[unitIdx] \notin {"Stop", "CopyDir"}
    /\ \E ok \in BOOLEAN :
        LET unit == Units(Local)[unitIdx]
            err == IF ok THEN Nil ELSE Err(unit, "")
        IN /\ trace' = Append(trace, Op(unit, "", err))
           /\ containerExists' = IF unit = "Create" /\ ok THEN TRUE ELSE containerExists
           /\ volumes' = IF unit = "Create" /\ ok
                         THEN volumes \cup GetMounts(Config) ELSE volumes
           /\ Env' = IF unit = "UpdateFromImageEnv" /\ ok
                     THEN UpdateFromEnv(Env, ImageEnv)
                     ELSE IF unit = "UpdateFromEnv" /\ ok
                     THEN UpdateFromEnv(Env, FileEnv)
                     ELSE Env
           /\ pipeErr' = err
           /\ pc' = AfterUnit(unitIdx, Len(Units(Local)), err)
           \* the locals of startJobContainer end with its pipeline
           /\ copyWorkspace' =
                 (copyWorkspace /\ AfterUnit(unitIdx, Len(Units(Local)), err) = "startPipe")
    /\ unitIdx' = unitIdx + 1
    /\ UNCHANGED <<Config, jobIf, image, enabled, JobContainer, Local,
                   steps, stepIdx, CurrentStep, StepResults,
                   file, cancelled, jobErr, result, last, returned, logged, stopBefore>>
    /\ UNCHANGED <<jobs, containers, namedVolumes, envLayers, args, ret>>
    /\ UNCHANGED <<heap, contexts>>

\* the unit CopyDir(...).IfBool(copyWorkspace) of the start pipeline
StartCopyDir ==
    /\ pc = "startPipe"
    /\ Units(Local)[unitIdx] = "CopyDir"
    /\ \E ok \in BOOLEAN :
        LET err == IF copyWorkspace /\ ~ok THEN Err("CopyDir", "") ELSE Nil
        IN /\ trace' = IF copyWorkspace THEN Append(trace, Op("CopyDir", "", err)) ELSE trace
           /\ pipeErr' = err
           /\ pc' = AfterUnit(unitIdx, Len(Units(Local)), err)
    /\ unitIdx' = unitIdx + 1
    /\ UNCHANGED <<Config, jobIf, image, enabled, JobContainer, Local,
                   containerExists, volumes, copyWorkspace, steps, stepIdx,
                   CurrentStep, StepResults, file, cancelled, jobErr, result,
                   last, returned, logged, stopBefore>>
    /\ UNCHANGED <<jobs, containers, namedVolumes, Env, envLayers, args, ret>>
    /\ UNCHANGED <<heap, contexts>>

\* the unit rc.stopJobContainer() of the start pipeline: removal of a stale
\* container and its volumes
StartStop ==
    /\ pc = "startPipe"
    /\ Units(Local)[unitIdx] = "Stop"
    /\ \E in \in StopInputs :
        LET r == stopJobContainer(JobContainer, Config, Local, containerExists,
                                  volumes, in)
        IN /\ trace' = trace \o r.ops
           /\ stopBefore' = volumes
           /\ containerExists' = r.containerExists
           /\ volumes' = r.volumes
           /\ pipeErr' = r.err
           /\ pc' = AfterUnit(unitIdx, Len(Units(Local)), r.err)
    /\ unitIdx' = unitIdx + 1
    /\ UNCHANGED <<Config, jobIf, image, enabled, JobContainer, Local,
                   copyWorkspace, steps, stepIdx, CurrentStep, StepResults,
                   file, cancelled, jobErr, result, last, returned, logged>>
    /\ UNCHANGED <<jobs, containers, namedVolumes, Env, envLayers, args, ret>>
    /\ UNCHANGED <<heap, contexts>>

\* one step unit of the job pipeline: the step executor runs; its error
\* aborts the pipeline
JobStep ==
    /\ pc = "steps"
    /\ \E in \in StepInputs :
        LET r == newStepExecutor(StepResults, file, steps[stepIdx], in)
        IN /\ StepResults' = r.StepResults
           /\ CurrentStep' = r.CurrentStep
           /\ file' = r.file
           /\ last' = StepRecord(stepIdx, steps[stepIdx], in, r)
           /\ returned' = Append(returned, [err |-> r.err, ctx |-> CtxErr(cancelled)])
           /\ pipeErr' = r.err
           /\ pc' = IF ~Then(r.err) \/ stepIdx = Len(steps) THEN "teardown" ELSE "steps"
           /\ trace' = Append(trace, Op("Step", ToString(stepIdx), r.err))
    /\ stepIdx' = stepIdx + 1
    /\ UNCHANGED <<Config, jobIf, image, enabled, JobContainer, Local,
                   containerExists, volumes, copyWorkspace, unitIdx, steps,
                   cancelled, jobErr, result, logged, stopBefore>>
    /\ UNCHANGED <<jobs, containers, namedVolumes, Env, envLayers, args, ret>>
    /\ UNCHANGED <<heap, contexts>>

\* the Finally stage of Executor(): teardown, then the result of the whole
Teardown ==
    /\ pc = "teardown"
    /\ \E in \in TeardownInputs :
        LET r == ExecutorFinally(JobContainer, Config, Local, containerExists,
                                 volumes, in, [cancelled |-> cancelled])
        IN /\ trace' = Append(trace, Op("Teardown", "", Nil)) \o r.ops
           /\ stopBefore' = IF JobContainer # "nil" /\ Config.AutoRemove
                             THEN volumes ELSE stopBefore
           /\ containerExists' = r.containerExists
           /\ volumes' = r.volumes
           /\ logged' = IF r.stopErr # Nil THEN Append(logged, r.stopErr) ELSE logged
           /\ result' = Finally(pipeErr, r.err)
    /\ pc' = "done"
    /\ UNCHANGED <<Config, jobIf, image, enabled, JobContainer, Local,
                   copyWorkspace, unitIdx, steps, stepIdx, CurrentStep,
                   StepResults, file, cancelled, jobErr, pipeErr, last,
                   returned>>
    /\ UNCHANGED <<jobs, containers, namedVolumes, Env, envLayers, args, ret>>
    /\ UNCHANGED <<heap, contexts>>

Next ==
    \/ ExecutorIsEnabled
    \/ StartJobContainer
    \/ StartUnit
    \/ StartCopyDir
    \/ StartStop
    \/ JobStep
    \/ Teardown

Spec == Init /\ [][Next]_vars

(* --------------------- Executor() under cancellation ------------------- *)

\* Executor() of a job whose context is cancelled while its steps run
InitCancel ==
    /\ Init
    /\ Config.ContainerDaemonSocket = ""
    /\ ~Config.BindWorkdir
    /\ volumes = VolumeNames

\* the context of the job is cancelled, before a step or between two steps
Cancel ==
    /\ pc = "steps"
    /\ ~cancelled
    /\ cancelled' = TRUE
    /\ UNCHANGED <<pc, Config, jobIf, image, enabled, JobContainer, Local,
                   containerExists, volumes, copyWorkspace, unitIdx, steps,
                   stepIdx, CurrentStep, StepResults, file, jobErr, pipeErr,
                   result, trace, last, returned, logged, stopBefore,
                   jobs, containers, namedVolumes, Env, envLayers, args, ret,
                   heap, contexts>>

\* the step pipeline observes the cancellation between two units and returns
\* the error of the context
JobCancelled ==
    /\ pc = "steps"
    /\ cancelled
    /\ pipeErr' = PipelineEnds(Nil, CtxErr(cancelled))
    /\ pc' = "teardown"
    /\ UNCHANGED <<Config, jobIf, image, enabled, JobContainer, Local,
                   containerExists, volumes, copyWorkspace, unitIdx, steps,
                   stepIdx, CurrentStep, StepResults, file, cancelled, jobErr,
                   result, trace, last, returned, logged, stopBefore,
                   jobs, containers, namedVolumes, Env, envLayers, args, ret,
                   heap, contexts>>

NextCancel ==
    \/ Next
    \/ Cancel
    \/ JobCancelled

SpecCancel == InitCancel /\ [][NextCancel]_vars

(* ------------------------- CompositeExecutor() ------------------------- *)

\* the state in which CompositeExecutor() is invoked on the scope of a
\* composite action: the job container runs, steps holds the declared steps
\* of the action, the scope has no step results yet
InitComposite ==
    /\ pc = "composite"
    /\ Config = [ReuseContainers |-> FALSE, AutoRemove |-> FALSE,
                 BindWorkdir |-> FALSE, ContainerDaemonSocket |-> ""]
    /\ jobIf = "true"
    /\ image = "node:16"
    /\ enabled = TRUE
    /\ JobContainer = "docker"
    /\ Local = FALSE
    /\ containerExists = TRUE
    /\ volumes = GetMounts(Config)
    /\ copyWorkspace = FALSE
    /\ unitIdx = 1
    /\ steps \in SeqsUpTo(StepDefs, MaxInner)
    /\ stepIdx = 1
    /\ CurrentStep = ""
    /\ StepResults = EmptyMap
    /\ file = EmptyMap
    /\ cancelled = FALSE
    /\ jobErr = Nil
    /\ pipeErr = Nil
    /\ result = Nil
    /\ trace = <<>>
    /\ last = NoStep
    /\ returned = <<>>
    /\ logged = <<>>
    /\ stopBefore = {}
    /\ jobs = <<>>
    /\ containers = {}
    /\ namedVolumes = {}
    /\ Env = NilEnv
    /\ envLayers = NoLayers
    /\ args = <<>>
    /\ ret = <<>>
    /\ heap = <<>>
    /\ contexts = <<>>

\* CompositeExecutor() builds its pipeline: ids are assigned, and the
\* executor it returns starts with an empty job error container
CompositeExecutor ==
    /\ pc = "composite"
    /\ steps' = AssignIDs(steps)
    /\ jobErr' = Nil
    /\ stepIdx' = 1
    /\ pc' = IF steps = <<>> THEN "compositeEnd" ELSE "compositeSteps"
    /\ UNCHANGED <<Config, jobIf, image, enabled, JobContainer, Local,
                   containerExists, volumes, copyWorkspace, unitIdx,
                   CurrentStep, StepResults, file, cancelled, pipeErr, result,
                   trace, last, returned, logged, stopBefore>>
    /\ UNCHANGED <<jobs, containers, namedVolumes, Env, envLayers, args, ret>>
    /\ UNCHANGED <<heap, contexts>>

\* one step unit of the composite pipeline and the boundary after it: the
\* step executor runs, the unit records its error or an observed
\* cancellation and returns nil, and the pipeline goes on with the next unit
\* unless it finds the context cancelled; c: the context is cancelled before
\* the unit looks at it, b: after that and before the pipeline looks at it
CompositeStep ==
    /\ pc = "compositeSteps"
    /\ \E in \in StepInputs, c \in BOOLEAN, b \in BOOLEAN :
        LET r == newStepExecutor(StepResults, file, steps[stepIdx], in)
            u == CompositeStepUnit(r.err, CtxErr(cancelled \/ c), jobErr)
            e == PipelineEnds(u.ret, CtxErr(cancelled \/ c \/ b))
        IN /\ StepResults' = r.StepResults
           /\ CurrentStep' = r.CurrentStep
           /\ file' = r.file
           /\ cancelled' = (cancelled \/ c \/ b)
           /\ last' = StepRecord(stepIdx, steps[stepIdx], in, r)
           /\ returned' = Append(returned, [err |-> r.err, ctx |-> CtxErr(cancelled \/ c)])
           /\ jobErr' = u.jobErr
           /\ result' = e
           /\ pc' = IF ~Then(e) THEN "done"
                    ELSE IF stepIdx = Len(steps) THEN "compositeEnd"
                    ELSE "compositeSteps"
           /\ trace' = Append(trace, Op("Step", ToString(stepIdx), r.err))
    /\ stepIdx' = stepIdx + 1
    /\ UNCHANGED <<Config, jobIf, image, enabled, JobContainer, Local,
                   containerExists, volumes, copyWorkspace, unitIdx, steps,
                   pipeErr, logged, stopBefore>>
    /\ UNCHANGED <<jobs, containers, namedVolumes, Env, envLayers, args, ret>>
    /\ UNCHANGED <<heap, contexts>>

\* the last unit of the composite pipeline, common.JobError: the recorded
\* job error is the result
CompositeJobError ==
    /\ pc = "compositeEnd"
    /\ result' = jobErr
    /\ trace' = Append(trace, Op("JobError", "", jobErr))
    /\ pc' = "done"
    /\ UNCHANGED <<Config, jobIf, image, enabled, JobContainer, Local,
                   containerExists, volumes, copyWorkspace, unitIdx, steps,
                   stepIdx, CurrentStep, StepResults, file, cancelled, jobErr,
                   pipeErr, last, returned, logged, stopBefore>>
    /\ UNCHANGED <<jobs, containers, namedVolumes, Env, envLayers, args, ret>>
    /\ UNCHANGED <<heap, contexts>>

NextComposite ==
    \/ CompositeExecutor
    \/ CompositeStep
    \/ CompositeJobError

SpecComposite == InitComposite /\ [][NextComposite]_vars

(* ------------------- repeated stops (SpecStop) ------------------------ *)

\* the record of one call of stopContainer(): what the daemon had before it,
\* what its collaborators did and the error it returned
StopRecord(ce, vols, in, r) ==
    [container |-> ce, volumes |-> vols, in |-> in, err |-> r.err,
     containerAfter |-> r.containerExists, volumesAfter |-> r.volumes]

\* a run context whose callers invoke stopContainer(): with or without a
\* container handle, the daemon having any of the job's resources
InitStop ==
    /\ pc = "stop"
    /\ Config \in {c \in Configs : /\ ~c.AutoRemove /\ ~c.BindWorkdir
                                    /\ c.ContainerDaemonSocket = ""}
    /\ jobIf = "true"
    /\ image = "node:16"
    /\ enabled = TRUE
    /\ JobContainer \in {"nil", "docker", "host"}
    /\ Local = (JobContainer = "host")
    /\ containerExists \in BOOLEAN
    /\ volumes \in SUBSET VolumeNames
    /\ copyWorkspace = FALSE
    /\ unitIdx = 1
    /\ steps = <<>>
    /\ stepIdx = 1
    /\ CurrentStep = ""
    /\ StepResults = EmptyMap
    /\ file = EmptyMap
    /\ cancelled = FALSE
    /\ jobErr = Nil
    /\ pipeErr = Nil
    /\ result = Nil
    /\ trace = <<>>
    /\ last = NoStep
    /\ returned = <<>>
    /\ logged = <<>>
    /\ stopBefore = {}
    /\ jobs = <<>>
    /\ containers = {}
    /\ namedVolumes = {}
    /\ Env = NilEnv
    /\ envLayers = NoLayers
    /\ args = <<>>
    /\ ret = <<>>
    /\ heap = <<>>
    /\ contexts = <<>>

\* rc.stopContainer(): one more call of stopJobContainer
StopContainer ==
    /\ pc = "stop"
    /\ Len(returned) < MaxStops
    /\ \E in \in StopInputs :
        LET r == stopJobContainer(JobContainer, Config, Local,
                                  containerExists, volumes, in)
        IN /\ trace' = trace \o r.ops
           /\ containerExists' = r.containerExists
           /\ volumes' = r.volumes
           /\ result' = r.err
           /\ returned' = Append(returned,
                                 StopRecord(containerExists, volumes, in, r))
    /\ stopBefore' = volumes
    /\ UNCHANGED <<pc, Config, jobIf, image, enabled, JobContainer, Local,
                   copyWorkspace, unitIdx, steps, stepIdx, CurrentStep,
                   StepResults, file, cancelled, jobErr, pipeErr, last,
                   logged>>
    /\ UNCHANGED <<jobs, containers, namedVolumes, Env, envLayers, args, ret>>
    /\ UNCHANGED <<heap, contexts>>

NextStop == StopContainer

SpecStop == InitStop /\ [][NextStop]_vars

(* ------------------- concurrent sibling jobs (SpecJobs) --------------- *)

\* rc.String() of the jobs of one workflow run: "w/a_b", "w/a-b", "w/c"
JobStrings ==
    {<<"w", "/", "a", "_", "b">>, <<"w", "/", "a", "-", "b">>,
     <<"w", "/", "c">>}

\* rc.jobContainerName()
jobContainerName(str) == Str(createContainerName(<<<<"a", "c", "t">>, str>>))

\* the name at the daemon of a named volume of the job: the container name
\* and the container name followed by "-env"
VolumeName(str, v) ==
    IF v = "main" THEN jobContainerName(str) ELSE jobContainerName(str) \o "-env"

\* JobContainer.Remove() of job j at the daemon: the container of the job's
\* name is removed
RemoveAtDaemon(j) ==
    {c \in containers : c.name # jobContainerName(jobs[j].str)}

\* VolumeList of job j at the daemon: whether the volume v of the job's
\* name is listed
VolumeListAtDaemon(j, v) ==
    \E y \in namedVolumes : y.name = VolumeName(jobs[j].str, v)

\* removeExecutor of job j for its volume v at the daemon: the error
\* returned and the volumes left
VolumeRemoveAtDaemon(j, v, out) ==
    LET str == jobs[j].str
        vols == {x \in VolumeNames :
                    \E y \in namedVolumes : y.name = VolumeName(str, x)}
        r == removeExecutor(v, vols, out)
        gone == {VolumeName(str, x) : x \in vols \ r.volumes}
    IN [err |-> r.err,
        volumes |-> {x \in namedVolumes : x.name \notin gone}]

\* what the daemon has once the container of job j is created and started:
\* a container or volume of that name that is there already is used as it is
CreateAtDaemon(j, cs, vs) ==
    LET str == jobs[j].str
        n == jobContainerName(str)
        mounts == {IF v = "act-toolcache" THEN [name |-> v, owner |-> 0]
                   ELSE [name |-> VolumeName(str, v), owner |-> j] :
                      v \in GetMounts(Config) \cup {"act-toolcache"}}
    IN [containers |-> IF \E c \in cs : c.name = n THEN cs
                       ELSE cs \cup {[name |-> n, owner |-> j]},
        volumes |-> vs \cup {m \in mounts : \A x \in vs : x.name # m.name}]

\* NumJobs distinct jobs of one workflow, none started, sharing one Config
InitJobs ==
    /\ pc = "jobs"
    /\ Config \in {c \in Configs : ~c.AutoRemove}
    /\ jobIf = "true"
    /\ image = "node:16"
    /\ enabled = TRUE
    /\ JobContainer = "nil"
    /\ Local = FALSE
    /\ containerExists = FALSE
    /\ volumes = {}
    /\ copyWorkspace = FALSE
    /\ unitIdx = 1
    /\ steps = <<>>
    /\ stepIdx = 1
    /\ CurrentStep = ""
    /\ StepResults = EmptyMap
    /\ file = EmptyMap
    /\ cancelled = FALSE
    /\ jobErr = Nil
    /\ pipeErr = Nil
    /\ result = Nil
    /\ trace = <<>>
    /\ last = NoStep
    /\ returned = <<>>
    /\ logged = <<>>
    /\ stopBefore = {}
    /\ jobs \in {js \in [1..NumJobs ->
                              [str : JobStrings, phase : {"idle"},
                               op : {"start"}, err : {Nil}, unit : {1},
                               copyWorkspace : {FALSE},
                               Env : {[nil |-> FALSE,
                                       map |-> GetEnv(NilEnv, NoLayers)]}]] :
                    \A i, k \in 1..NumJobs : i # k => js[i].str # js[k].str}
    /\ containers = {}
    /\ namedVolumes = {}
    /\ Env = NilEnv
    /\ envLayers = NoLayers
    /\ args = <<>>
    /\ ret = <<>>
    /\ heap = <<>>
    /\ contexts = <<>>

\* job j once the unit it is at in its start pipeline returned err: the first
\* failure ends the pipeline, the last unit leaves the job running
JobAfter(job, err) ==
    IF ~Then(err)
    THEN [job EXCEPT !.phase = "failed", !.err = err]
    ELSE IF job.unit = Len(StartUnits)
    THEN [job EXCEPT !.phase = "running"]
    ELSE [job EXCEPT !.phase = "pipe", !.unit = job.unit + 1]

\* startJobContainer of job j, container mode, up to its pipeline: the
\* credentials, the binds and mounts, the container handle
JobStartContainer(j) ==
    /\ pc = "jobs"
    /\ jobs[j].phase = "idle"
    /\ \E in \in StartInputs :
        LET r == startJobContainer(image, Config, jobs[j].Env, in)
        IN /\ Config' = r.Config
           /\ jobs' = [jobs EXCEPT ![j] =
                          IF ~Then(r.err)
                          THEN [@ EXCEPT !.phase = "failed", !.err = r.err]
                          ELSE [@ EXCEPT !.phase = "pipe", !.unit = 1,
                                         !.copyWorkspace = r.copyWorkspace,
                                         !.Env = r.Env]]
    /\ UNCHANGED <<containers, namedVolumes>>
    /\ UNCHANGED <<pc, jobIf, image, enabled, JobContainer, Local,
                   containerExists, volumes, copyWorkspace, unitIdx, steps,
                   stepIdx, CurrentStep, StepResults, file, cancelled, jobErr,
                   pipeErr, result, trace, last, returned, logged, stopBefore,
                   Env, envLayers, args, ret, heap, contexts>>

\* a unit of the start pipeline of job j that leaves the containers and
\* volumes of the daemon as they are: Pull, Start, UpdateFromImageEnv,
\* UpdateFromEnv, Exec, CopyDir when the workspace is copied, Copy
JobUnit(j) ==
    /\ pc = "jobs"
    /\ jobs[j].phase = "pipe"
    /\ StartUnits[jobs[j].unit] \notin {"Stop", "Create"}
    /\ \E ok \in BOOLEAN :
        LET unit == StartUnits[jobs[j].unit]
            skipped == unit = "CopyDir" /\ ~jobs[j].copyWorkspace
            err == IF ok \/ skipped THEN Nil ELSE Err(unit, "")
            env == IF unit = "UpdateFromImageEnv" /\ ok
                   THEN UpdateFromEnv(jobs[j].Env, ImageEnv)
                   ELSE IF unit = "UpdateFromEnv" /\ ok
                   THEN UpdateFromEnv(jobs[j].Env, FileEnv)
                   ELSE jobs[j].Env
        IN jobs' = [jobs EXCEPT ![j] = JobAfter([@ EXCEPT !.Env = env], err)]
    /\ UNCHANGED <<Config, containers, namedVolumes>>
    /\ UNCHANGED <<pc, jobIf, image, enabled, JobContainer, Local,
                   containerExists, volumes, copyWorkspace, unitIdx, steps,
                   stepIdx, CurrentStep, StepResults, file, cancelled, jobErr,
                   pipeErr, result, trace, last, returned, logged, stopBefore,
                   Env, envLayers, args, ret, heap, contexts>>

\* stopJobContainer of job j begins, as a unit of its start pipeline or as
\* the stop of the running job: the container is reused, or
\* JobContainer.Remove() is invoked
JobRemove(j) ==
    /\ pc = "jobs"
    /\ \/ jobs[j].phase = "pipe" /\ StartUnits[jobs[j].unit] = "Stop"
       \/ jobs[j].phase = "running"
    /\ LET op == IF jobs[j].phase = "running" THEN "stop" ELSE "start"
           job == [jobs[j] EXCEPT !.op = op]
       IN IF Config.ReuseContainers
          THEN /\ jobs' = [jobs EXCEPT ![j] =
                               IF op = "stop"
                               THEN [job EXCEPT !.phase = "stopped"]
                               ELSE JobAfter(job, Nil)]
               /\ UNCHANGED containers
          ELSE \E ok \in BOOLEAN :
                 IF ok
                 THEN /\ containers' = RemoveAtDaemon(j)
                      /\ jobs' = [jobs EXCEPT ![j] =
                                      [job EXCEPT !.phase = "volMain"]]
                 ELSE /\ UNCHANGED containers
                      /\ jobs' = [jobs EXCEPT ![j] =
                                      IF op = "stop"
                                      THEN [job EXCEPT !.phase = "stopped",
                                                       !.err = Err("Remove", "")]
                                      ELSE JobAfter(job, Err("Remove", ""))]
    /\ UNCHANGED <<Config, namedVolumes>>
    /\ UNCHANGED <<pc, jobIf, image, enabled, JobContainer, Local,
                   containerExists, volumes, copyWorkspace, unitIdx, steps,
                   stepIdx, CurrentStep, StepResults, file, cancelled, jobErr,
                   pipeErr, result, trace, last, returned, logged, stopBefore,
                   Env, envLayers, args, ret, heap, contexts>>

\* job j once the removal of its volume v returned err: the "-env" volume
\* follows the main volume whatever its removal returned (Finally), and the
\* removals end stopJobContainer
JobAfterVolume(job, v, err) ==
    IF v = "main"
    THEN [job EXCEPT !.phase = "volEnv", !.err = err]
    ELSE LET e == Finally(job.err, err)
             done == [job EXCEPT !.err = Nil]
         IN IF job.op = "stop"
            THEN [done EXCEPT !.phase = "stopped", !.err = e]
            ELSE JobAfter(done, e)

\* NewDockerVolumeRemoveExecutor of job j up to its look-up: VolumeList
\* fails, or the volume is not listed and nothing is done, or it is listed
\* and removeExecutor follows
JobVolumeList(j) ==
    /\ pc = "jobs"
    /\ jobs[j].phase \in {"volMain", "volEnv"}
    /\ LET v == IF jobs[j].phase = "volMain" THEN "main" ELSE "env"
       IN \E ok \in BOOLEAN :
            jobs' = [jobs EXCEPT ![j] =
                        IF ~ok THEN JobAfterVolume(@, v, Err("VolumeList", v))
                        ELSE IF ~VolumeListAtDaemon(j, v)
                        THEN JobAfterVolume(@, v, Nil)
                        ELSE [@ EXCEPT !.phase =
                                 IF v = "main" THEN "rmMain" ELSE "rmEnv"]]
    /\ UNCHANGED <<Config, containers, namedVolumes>>
    /\ UNCHANGED <<pc, jobIf, image, enabled, JobContainer, Local,
                   containerExists, volumes, copyWorkspace, unitIdx, steps,
                   stepIdx, CurrentStep, StepResults, file, cancelled, jobErr,
                   pipeErr, result, trace, last, returned, logged, stopBefore,
                   Env, envLayers, args, ret, heap, contexts>>

\* removeExecutor of job j for the volume it found listed
JobVolumeRemove(j) ==
    /\ pc = "jobs"
    /\ jobs[j].phase \in {"rmMain", "rmEnv"}
    /\ LET v == IF jobs[j].phase = "rmMain" THEN "main" ELSE "env"
       IN \E out \in VolOutcomes \ {"listErr"} :
            LET r == VolumeRemoveAtDaemon(j, v, out)
            IN /\ namedVolumes' = r.volumes
               /\ jobs' = [jobs EXCEPT ![j] = JobAfterVolume(@, v, r.err)]
    /\ UNCHANGED <<Config, containers>>
    /\ UNCHANGED <<pc, jobIf, image, enabled, JobContainer, Local,
                   containerExists, volumes, copyWorkspace, unitIdx, steps,
                   stepIdx, CurrentStep, StepResults, file, cancelled, jobErr,
                   pipeErr, result, trace, last, returned, logged, stopBefore,
                   Env, envLayers, args, ret, heap, contexts>>

\* JobContainer.Create of job j
JobCreate(j) ==
    /\ pc = "jobs"
    /\ jobs[j].phase = "pipe"
    /\ StartUnits[jobs[j].unit] = "Create"
    /\ \E ok \in BOOLEAN :
        LET c == CreateAtDaemon(j, containers, namedVolumes)
        IN IF ok
           THEN /\ containers' = c.containers
                /\ namedVolumes' = c.volumes
                /\ jobs' = [jobs EXCEPT ![j] = JobAfter(@, Nil)]
           ELSE /\ UNCHANGED <<containers, namedVolumes>>
                /\ jobs' = [jobs EXCEPT ![j] = JobAfter(@, Err("Create", ""))]
    /\ UNCHANGED Config
    /\ UNCHANGED <<pc, jobIf, image, enabled, JobContainer, Local,
                   containerExists, volumes, copyWorkspace, unitIdx, steps,
                   stepIdx, CurrentStep, StepResults, file, cancelled, jobErr,
                   pipeErr, result, trace, last, returned, logged, stopBefore,
                   Env, envLayers, args, ret, heap, contexts>>

NextJobs ==
    \/ \E j \in 1..NumJobs : JobStartContainer(j)
    \/ \E j \in 1..NumJobs : JobUnit(j)
    \/ \E j \in 1..NumJobs : JobRemove(j)
    \/ \E j \in 1..NumJobs : JobVolumeList(j)
    \/ \E j \in 1..NumJobs : JobVolumeRemove(j)
    \/ \E j \in 1..NumJobs : JobCreate(j)

SpecJobs == InitJobs /\ [][NextJobs]_vars

(* ------------------- environment composition (SpecEnv) --------------- *)

\* what the image or /etc/environment sets in the environment
Seeds == {<<"K", "s">>, <<"ACT", "false">>}

\* a run context that has no environment yet, and what its three levels
\* declare
InitEnv ==
    /\ pc = "env"
    /\ Config = [ReuseContainers |-> FALSE, AutoRemove |-> FALSE,
                 BindWorkdir |-> FALSE, ContainerDaemonSocket |-> ""]
    /\ jobIf = "true"
    /\ image = "node:16"
    /\ enabled = TRUE
    /\ JobContainer = "docker"
    /\ Local = FALSE
    /\ containerExists = TRUE
    /\ volumes = {}
    /\ copyWorkspace = FALSE
    /\ unitIdx = 1
    /\ steps = <<>>
    /\ stepIdx = 1
    /\ CurrentStep = ""
    /\ StepResults = EmptyMap
    /\ file = EmptyMap
    /\ cancelled = FALSE
    /\ jobErr = Nil
    /\ pipeErr = Nil
    /\ result = Nil
    /\ trace = <<>>
    /\ last = NoStep
    /\ returned = <<>>
    /\ logged = <<>>
    /\ stopBefore = {}
    /\ jobs = <<>>
    /\ containers = {}
    /\ namedVolumes = {}
    /\ Env = NilEnv
    /\ envLayers \in [global : EnvMaps("g"), workflow : EnvMaps("w"),
                      job : EnvMaps("j")]
    /\ args = <<>>
    /\ ret = <<>>
    /\ heap = <<>>
    /\ contexts = <<>>

\* a call of rc.GetEnv(); ret keeps rc.Env as it was before the call and the
\* map returned
CallGetEnv ==
    /\ pc = "env"
    /\ Len(trace) < MaxEnvOps
    /\ Env' = [nil |-> FALSE, map |-> GetEnv(Env, envLayers)]
    /\ ret' = <<[before |-> Env, map |-> GetEnv(Env, envLayers)]>>
    /\ trace' = Append(trace, Op("GetEnv", "", Nil))
    /\ UNCHANGED <<pc, Config, jobIf, image, enabled, JobContainer, Local,
                   containerExists, volumes, copyWorkspace, unitIdx, steps,
                   stepIdx, CurrentStep, StepResults, file, cancelled, jobErr,
                   pipeErr, result, last, returned, logged, stopBefore, jobs,
                   containers, namedVolumes, envLayers, args>>
    /\ UNCHANGED <<heap, contexts>>

\* UpdateFromImageEnv(&rc.Env) or UpdateFromEnv("/etc/environment", &rc.Env)
\* of the start pipeline, which runs once the environment exists: a variable
\* of the image or of the file is set in rc.Env
SeedEnv ==
    /\ pc = "env"
    /\ Len(trace) < MaxEnvOps
    /\ ~Env.nil
    /\ \E kv \in Seeds :
        /\ Env' = UpdateFromEnv(Env, kv)
        /\ trace' = Append(trace, Op("UpdateFromEnv", kv[1], Nil))
    /\ ret' = <<>>
    /\ UNCHANGED <<pc, Config, jobIf, image, enabled, JobContainer, Local,
                   containerExists, volumes, copyWorkspace, unitIdx, steps,
                   stepIdx, CurrentStep, StepResults, file, cancelled, jobErr,
                   pipeErr, result, last, returned, logged, stopBefore, jobs,
                   containers, namedVolumes, envLayers, args>>
    /\ UNCHANGED <<heap, contexts>>

NextEnv ==
    \/ CallGetEnv
    \/ SeedEnv

SpecEnv == InitEnv /\ [][NextEnv]_vars

(* ------------------- createContainerName (SpecName) ------------------- *)

\* the characters of the first part: a letter, a digit, a hyphen and a
\* character that is none of these
NameChars == {"a", "1", "-", "/"}

\* the strings of at most n characters of NameChars
StringsUpTo(n) == UNION {[1..k -> NameChars] : k \in 0..n}

\* the last part of a name
FinalParts == {<<>>, <<"b">>, <<"/", "b">>, <<"b", "-", "1">>}

\* the lists of parts: a first part, parts "c" and a last part
PartLists ==
    {<<f>> : f \in FinalParts} \cup
    {<<h>> \o [i \in 1..(n - 2) |-> <<"c">>] \o <<f>> :
        h \in StringsUpTo(MaxPartLen), n \in 2..MaxParts, f \in FinalParts}

\* the parts a caller passes to createContainerName
InitName ==
    /\ pc = "name"
    /\ Config = [ReuseContainers |-> FALSE, AutoRemove |-> FALSE,
                 BindWorkdir |-> FALSE, ContainerDaemonSocket |-> ""]
    /\ jobIf = "true"
    /\ image = "node:16"
    /\ enabled = TRUE
    /\ JobContainer = "nil"
    /\ Local = FALSE
    /\ containerExists = FALSE
    /\ volumes = {}
    /\ copyWorkspace = FALSE
    /\ unitIdx = 1
    /\ steps = <<>>
    /\ stepIdx = 1
    /\ CurrentStep = ""
    /\ StepResults = EmptyMap
    /\ file = EmptyMap
    /\ cancelled = FALSE
    /\ jobErr = Nil
    /\ pipeErr = Nil
    /\ result = Nil
    /\ trace = <<>>
    /\ last = NoStep
    /\ returned = <<>>
    /\ logged = <<>>
    /\ stopBefore = {}
    /\ jobs = <<>>
    /\ containers = {}
    /\ namedVolumes = {}
    /\ Env = NilEnv
    /\ envLayers = NoLayers
    /\ args \in PartLists
    /\ ret = <<>>
    /\ heap = <<>>
    /\ contexts = <<>>

\* createContainerName(parts...) is evaluated; ret holds the name
CallCreateContainerName ==
    /\ pc = "name"
    /\ ret = <<>>
    /\ ret' = <<createContainerName(args)>>
    /\ UNCHANGED <<pc, Config, jobIf, image, enabled, JobContainer, Local,
                   containerExists, volumes, copyWorkspace, unitIdx, steps,
                   stepIdx, CurrentStep, StepResults, file, cancelled, jobErr,
                   pipeErr, result, trace, last, returned, logged, stopBefore,
                   jobs, containers, namedVolumes, Env, envLayers, args>>
    /\ UNCHANGED <<heap, contexts>>

NextName == CallCreateContainerName

SpecName == InitName /\ [][NextName]_vars

(* ------------------- platformImage (SpecPlatform) --------------------- *)

\* the job whose image is resolved
InitPlatform ==
    /\ pc = "platform"
    /\ Config = [ReuseContainers |-> FALSE, AutoRemove |-> FALSE,
                 BindWorkdir |-> FALSE, ContainerDaemonSocket |-> ""]
    /\ jobIf = "true"
    /\ image = ""
    /\ enabled = FALSE
    /\ JobContainer = "nil"
    /\ Local = FALSE
    /\ containerExists = FALSE
    /\ volumes = {}
    /\ copyWorkspace = FALSE
    /\ unitIdx = 1
    /\ steps = <<>>
    /\ stepIdx = 1
    /\ CurrentStep = ""
    /\ StepResults = EmptyMap
    /\ file = EmptyMap
    /\ cancelled = FALSE
    /\ jobErr = Nil
    /\ pipeErr = Nil
    /\ result = Nil
    /\ trace = <<>>
    /\ last = NoStep
    /\ returned = <<>>
    /\ logged = <<>>
    /\ stopBefore = {}
    /\ jobs = <<>>
    /\ containers = {}
    /\ namedVolumes = {}
    /\ Env = NilEnv
    /\ envLayers = NoLayers
    /\ args \in Jobs
    /\ ret = <<>>
    /\ heap = <<>>
    /\ contexts = <<>>

\* rc.platformImage() is evaluated; ret holds the image
CallPlatformImage ==
    /\ pc = "platform"
    /\ ret = <<>>
    /\ ret' = <<platformImage(args)>>
    /\ image' = platformImage(args)
    /\ UNCHANGED <<pc, Config, jobIf, enabled, JobContainer, Local,
                   containerExists, volumes, copyWorkspace, unitIdx, steps,
                   stepIdx, CurrentStep, StepResults, file, cancelled, jobErr,
                   pipeErr, result, trace, last, returned, logged, stopBefore,
                   jobs, containers, namedVolumes, Env, envLayers, args>>
    /\ UNCHANGED <<heap, contexts>>

NextPlatform == CallPlatformImage

SpecPlatform == InitPlatform /\ [][NextPlatform]_vars

(* ------------------- handleCredentials (SpecCredentials) -------------- *)

\* m[k] of a Go map of strings: "" for a key that is not there
Lookup(m, k) == IF k \in DOMAIN m THEN m[k] ELSE ""

\* the keys and the values of a credentials map; "${{ x }}" interpolates to ""
CredKeys == {"username", "password", "token"}
CredVals == {"", "u", "${{ x }}"}

\* container.Credentials: not declared (nil), or a map
Credentials ==
    {[declared |-> FALSE, map |-> EmptyMap]} \cup
    {[declared |-> TRUE, map |-> m] :
        m \in UNION {[ks -> CredVals] : ks \in SUBSET CredKeys}}

\* Config.Secrets: the deprecated global secrets, set or not
Secrets ==
    UNION {[ks -> {"s"}] : ks \in SUBSET {"DOCKER_USERNAME", "DOCKER_PASSWORD"}}

\* the job's container block and the secrets handleCredentials reads
CredentialInputs ==
    {i \in [HasContainer : BOOLEAN, Credentials : Credentials, Secrets : Secrets] :
        ~i.HasContainer => ~i.Credentials.declared}

\* handleCredentials without the check of the number of entries
handleCredentialsAnyCount(in) ==
    LET su == Lookup(in.Secrets, "DOCKER_USERNAME")
        sp == Lookup(in.Secrets, "DOCKER_PASSWORD")
        c == in.Credentials.map
        u == Interpolate(Lookup(c, "username"))
        p == Interpolate(Lookup(c, "password"))
    IN IF ~in.HasContainer \/ ~in.Credentials.declared
       THEN [username |-> su, password |-> sp, err |-> Nil]
       ELSE IF u = ""
       THEN [username |-> u, password |-> sp,
             err |-> Err("credentials", "username")]
       ELSE IF p = ""
       THEN [username |-> u, password |-> p,
             err |-> Err("credentials", "password")]
       ELSE IF Lookup(c, "username") = "" \/ Lookup(c, "password") = ""
       THEN [username |-> u, password |-> p, err |-> Err("credentials", "empty")]
       ELSE [username |-> u, password |-> p, err |-> Nil]

\* rc.handleCredentials(): username, password and error as they are returned
handleCredentials(in) ==
    LET su == Lookup(in.Secrets, "DOCKER_USERNAME")
        sp == Lookup(in.Secrets, "DOCKER_PASSWORD")
        c == in.Credentials.map
        u == Interpolate(Lookup(c, "username"))
        p == Interpolate(Lookup(c, "password"))
    IN IF ~in.HasContainer \/ ~in.Credentials.declared
       THEN [username |-> su, password |-> sp, err |-> Nil]
       ELSE IF Cardinality(DOMAIN c) # 2
       THEN [username |-> su, password |-> sp,
             err |-> Err("credentials", "count")]
       ELSE IF u = ""
       THEN [username |-> u, password |-> sp,
             err |-> Err("credentials", "username")]
       ELSE IF p = ""
       THEN [username |-> u, password |-> p,
             err |-> Err("credentials", "password")]
       ELSE IF Lookup(c, "username") = "" \/ Lookup(c, "password") = ""
       THEN [username |-> u, password |-> p, err |-> Err("credentials", "empty")]
       ELSE [username |-> u, password |-> p, err |-> Nil]

\* the container block and secrets of the job whose credentials are resolved
InitCredentials ==
    /\ pc = "credentials"
    /\ Config = [ReuseContainers |-> FALSE, AutoRemove |-> FALSE,
                 BindWorkdir |-> FALSE, ContainerDaemonSocket |-> ""]
    /\ jobIf = "true"
    /\ image = "node:16"
    /\ enabled = TRUE
    /\ JobContainer = "nil"
    /\ Local = FALSE
    /\ containerExists = FALSE
    /\ volumes = {}
    /\ copyWorkspace = FALSE
    /\ unitIdx = 1
    /\ steps = <<>>
    /\ stepIdx = 1
    /\ CurrentStep = ""
    /\ StepResults = EmptyMap
    /\ file = EmptyMap
    /\ cancelled = FALSE
    /\ jobErr = Nil
    /\ pipeErr = Nil
    /\ result = Nil
    /\ trace = <<>>
    /\ last = NoStep
    /\ returned = <<>>
    /\ logged = <<>>
    /\ stopBefore = {}
    /\ jobs = <<>>
    /\ containers = {}
    /\ namedVolumes = {}
    /\ Env = NilEnv
    /\ envLayers = NoLayers
    /\ args \in CredentialInputs
    /\ ret = <<>>
    /\ heap = <<>>
    /\ contexts = <<>>

\* rc.handleCredentials() is evaluated; ret holds what it returned
CallHandleCredentials ==
    /\ pc = "credentials"
    /\ ret = <<>>
    /\ ret' = <<handleCredentials(args)>>
    /\ UNCHANGED <<pc, Config, jobIf, image, enabled, JobContainer, Local,
                   containerExists, volumes, copyWorkspace, unitIdx, steps,
                   stepIdx, CurrentStep, StepResults, file, cancelled, jobErr,
                   pipeErr, result, trace, last, returned, logged, stopBefore,
                   jobs, containers, namedVolumes, Env, envLayers, args>>
    /\ UNCHANGED <<heap, contexts>>

NextCredentials == CallHandleCredentials

SpecCredentials == InitCredentials /\ [][NextCredentials]_vars

(* ------------------------------ Clone --------------------------------- *)

\* the steps executed on a clone
MaxCloneSteps == 2

\* a run context holds values (CurrentStep), pointers that are nil or name an
\* object (Composite, Inputs, Config, Matrix, Run), the position of its
\* StepResults mapping in heap, and its parent's position in contexts (0: nil)
NilContextData == [nil |-> TRUE, github |-> Nil, rest |-> {}]

\* the copy that keeps the StepResults mapping of the original
CloneSharedResults(rc, self, fresh) ==
    [rc EXCEPT !.CurrentStep = "", !.Composite = "nil", !.Inputs = "nil",
               !.Parent = self,
               !.ContextData =
                   IF rc.ContextData.nil THEN rc.ContextData
                   ELSE [nil |-> FALSE, github |-> rc.ContextData.github,
                         rest |-> {}]]

\* Clone(): a copy of the context rc found at position self; fresh is the
\* reference of the mapping make() allocates
Clone(rc, self, fresh) ==
    [rc EXCEPT !.CurrentStep = "", !.Composite = "nil", !.Inputs = "nil",
               !.StepResults = fresh, !.Parent = self,
               !.ContextData =
                   IF rc.ContextData.nil THEN rc.ContextData
                   ELSE [nil |-> FALSE, github |-> rc.ContextData.github,
                         rest |-> {}]]

\* the steps a context executes: each has an id by then
RunnableSteps == {d \in StepDefs : d.ID # ""}

\* the step results a context holds after it executed at most one step
ParentResults ==
    {EmptyMap} \cup
    {newStepExecutor(EmptyMap, EmptyMap, d, in).StepResults :
        d \in RunnableSteps, in \in StepInputs}

\* the contexts Clone() is invoked on
ParentContexts ==
    [CurrentStep : StepIDs, Composite : {"nil", "action"},
     Inputs : {"nil", "inputs"}, StepResults : {1}, Parent : {0},
     Config : {"config"}, Matrix : {"matrix"}, Run : {"run"},
     ContextData : {NilContextData,
                    [nil |-> FALSE, github |-> "gh", rest |-> {"inputs"}]}]

InitClone ==
    /\ pc = "clone"
    /\ Config = [ReuseContainers |-> FALSE, AutoRemove |-> FALSE,
                 BindWorkdir |-> FALSE, ContainerDaemonSocket |-> ""]
    /\ jobIf = "true"
    /\ image = "node:16"
    /\ enabled = TRUE
    /\ JobContainer = "docker"
    /\ Local = FALSE
    /\ containerExists = TRUE
    /\ volumes = GetMounts(Config)
    /\ copyWorkspace = FALSE
    /\ unitIdx = 1
    /\ steps = <<>>
    /\ stepIdx = 1
    /\ CurrentStep = ""
    /\ StepResults = EmptyMap
    /\ file = EmptyMap
    /\ cancelled = FALSE
    /\ jobErr = Nil
    /\ pipeErr = Nil
    /\ result = Nil
    /\ trace = <<>>
    /\ last = NoStep
    /\ returned = <<>>
    /\ logged = <<>>
    /\ stopBefore = {}
    /\ jobs = <<>>
    /\ containers = {}
    /\ namedVolumes = {}
    /\ Env = NilEnv
    /\ envLayers = NoLayers
    /\ ret = <<>>
    /\ \E rc \in ParentContexts, sr \in ParentResults :
        /\ (rc.CurrentStep = "") = (sr = EmptyMap)
        /\ contexts = <<rc>>
        /\ heap = <<sr>>
        /\ args = <<rc, sr>>

\* Clone() is invoked on the parent
CallClone ==
    /\ pc = "clone"
    /\ contexts' = Append(contexts, Clone(contexts[1], 1, Len(heap) + 1))
    /\ heap' = Append(heap, EmptyMap)
    /\ pc' = "cloneSteps"
    /\ UNCHANGED <<Config, jobIf, image, enabled, JobContainer, Local,
                   containerExists, volumes, copyWorkspace, unitIdx, steps,
                   stepIdx, CurrentStep, StepResults, file, cancelled, jobErr,
                   pipeErr, result, trace, last, returned, logged, stopBefore,
                   jobs, containers, namedVolumes, Env, envLayers, args, ret>>

\* a step executor built by newStepExecutor on the clone runs
CloneStep ==
    /\ pc = "cloneSteps"
    /\ stepIdx <= MaxCloneSteps
    /\ \E step \in RunnableSteps, in \in StepInputs :
        LET rc == contexts[2]
            r == newStepExecutor(heap[rc.StepResults], file, step, in)
        IN /\ heap' = [heap EXCEPT ![rc.StepResults] = r.StepResults]
           /\ contexts' = [contexts EXCEPT ![2].CurrentStep = r.CurrentStep]
           /\ file' = r.file
           /\ last' = StepRecord(stepIdx, step, in, r)
    /\ stepIdx' = stepIdx + 1
    /\ UNCHANGED <<Config, jobIf, image, enabled, JobContainer, Local,
                   containerExists, volumes, copyWorkspace, unitIdx, steps,
                   CurrentStep, StepResults, cancelled, jobErr, pipeErr,
                   result, trace, returned, logged, stopBefore, pc,
                   jobs, containers, namedVolumes, Env, envLayers, args, ret>>

NextClone == CallClone \/ CloneStep

SpecClone == InitClone /\ [][NextClone]_vars

(* ---------------------------- job context ------------------------------ *)

\* the job status taken from the raw outcomes instead of the conclusions
getJobContextByOutcome(sr) ==
    LET RECURSIVE Loop(_, _)
        Loop(ids, jobStatus) ==
            IF ids = {} THEN jobStatus
            ELSE LET id == CHOOSE x \in ids : TRUE
                 IN IF sr[id].Outcome = "failure" THEN "failure"
                    ELSE Loop(ids \ {id}, jobStatus)
    IN [Status |-> Loop(DOMAIN sr, "success")]

\* getJobContext(): the loop over rc.StepResults stops at the first result
\* whose conclusion is Failure
getJobContext(sr) ==
    LET RECURSIVE Loop(_, _)
        Loop(ids, jobStatus) ==
            IF ids = {} THEN jobStatus
            ELSE LET id == CHOOSE x \in ids : TRUE
                 IN IF sr[id].Conclusion = "failure" THEN "failure"
                    ELSE Loop(ids \ {id}, jobStatus)
    IN [Status |-> Loop(DOMAIN sr, "success")]

(* ------------------------------ properties ----------------------------- *)

\* the names of the operations of a piece of trace
Names(t) == [i \in 1..Len(t) |-> t[i][1]]

IsPrefix(a, b) == Len(a) <= Len(b) /\ \A i \in 1..Len(a) : a[i] = b[i]

Max(S) == CHOOSE x \in S : \A y \in S : y <= x

\* entry k places after position p of the trace
After(p, k) == IF p + k <= Len(trace) THEN trace[p + k] ELSE <<"none", "", "">>

\* the part of the trace before the first step and before the teardown
IsLater(e) == e[1] \in {"Step", "Teardown"}
StartPart ==
    LET later == {i \in 1..Len(trace) : IsLater(trace[i])}
    IN IF later = {} THEN trace
       ELSE SubSeq(trace, 1, (CHOOSE i \in later : \A j \in later : i <= j) - 1)

\* C1: a job that passed the enablement check and whose Executor() returned
\* has run the teardown stage exactly once, after every start operation and
\* every step; when the container handle exists, Close was invoked exactly
\* once, as the last operation, preceded within the teardown by exactly one
\* Stop under auto-removal and by none otherwise. Nothing of the teardown
\* happens before the step pipeline has finished.
C1TeardownOnce ==
    LET td == OpPositions(trace, "Teardown")
        cl == OpPositions(trace, "Close")
        tdStops == {i \in OpPositions(trace, "Stop") : \E t \in td : i > t}
    IN /\ pc # "done" => (td = {} /\ cl = {})
       /\ (pc = "done" /\ enabled) =>
            /\ Cardinality(td) = 1
            /\ \A t \in td : \A i \in 1..Len(trace) :
                  /\ i < t => trace[i][1] # "Close"
                  /\ i > t => trace[i][1] \in {"Stop", "Remove", "VolumeRemove", "Close"}
            /\ JobContainer # "nil" =>
                  /\ Cardinality(cl) = 1
                  /\ Last(trace)[1] = "Close"
                  /\ Cardinality(tdStops) = IF Config.AutoRemove THEN 1 ELSE 0
            /\ JobContainer = "nil" => cl = {}

\* C1 witness: container start failed after the handle was created, and the
\* teardown stopped and closed the container
C1Witness ==
    /\ pc = "done"
    /\ JobContainer = "docker"
    /\ Config.AutoRemove
    /\ Res(pipeErr) = "Create"
    /\ Last(trace)[1] = "Close"

\* C2 as claimed: whatever Stop and Close return during the teardown,
\* Executor() returns the result of the step pipeline
C2TeardownNeverChangesResult ==
    (pc = "done" /\ enabled) => result = pipeErr

\* C3: a step whose body failed under continue-on-error has outcome failure
\* and conclusion success; when the read-back succeeded its executor returned
\* no error and the job pipeline stands at the next step
C3ContinueOnError ==
    (last.idx >= 1 /\ last.ran /\ ~last.bodyOk /\ last.step.ContinueOnError) =>
        /\ StepResults[last.step.ID].Outcome = "failure"
        /\ StepResults[last.step.ID].Conclusion = "success"
        /\ last.readOk =>
            /\ last.err = Nil
            /\ pipeErr = Nil
            /\ last.idx < Len(steps) => (pc = "steps" /\ stepIdx = last.idx + 1)

\* C3 witness: the first step failed under continue-on-error and the
\* pipeline is about to run the second
C3Witness ==
    /\ last.idx = 1
    /\ last.ran /\ ~last.bodyOk /\ last.step.ContinueOnError /\ last.readOk
    /\ pc = "steps"
    /\ stepIdx = 2

\* a step whose body failed without continue-on-error
FailedHard == last.idx >= 1 /\ last.ran /\ ~last.bodyOk /\ ~last.step.ContinueOnError

\* C4 as claimed: after a step failed without continue-on-error no later
\* step of the same scope is executed
C4HaltsScope ==
    \A i \in 1..Len(returned) :
        (returned[i].err # Nil /\ returned[i].err[1] = "body") => Len(returned) = i

\* C4, amended: a step whose body failed without continue-on-error has
\* outcome failure and conclusion failure, and its executor returned an error
\* (the step's own when the read-back succeeded); in a composite scope the
\* error is recorded as the job error and the scope goes on with the next
\* step, or with the stage that returns the recorded error; only a cancelled
\* context ends the scope after the step, with an error all the same
C4FailureRecorded ==
    FailedHard =>
        /\ StepResults[last.step.ID].Outcome = "failure"
        /\ StepResults[last.step.ID].Conclusion = "failure"
        /\ last.err # Nil
        /\ last.readOk => last.err = Err("body", last.step.ID)
        /\ pc # "done" =>
            /\ jobErr = last.err
            /\ pc = IF last.idx < Len(steps) THEN "compositeSteps" ELSE "compositeEnd"
            /\ stepIdx = last.idx + 1
        /\ pc = "done" =>
            /\ result # Nil
            /\ Last(trace)[1] = "JobError" \/ (cancelled /\ result = CtxErr(TRUE))

\* C4 witness: the first inner step failed without continue-on-error and the
\* second one has been executed after it
C4Witness ==
    /\ Len(returned) = 2
    /\ returned[1].err # Nil /\ returned[1].err[1] = "body"
    /\ ~steps[1].ContinueOnError
    /\ StepResults[steps[1].ID].Conclusion = "failure"

\* the pairs the latest step wrote are in its outputs
Published ==
    \A k \in DOMAIN last.writes :
        /\ k \in DOMAIN StepResults[last.step.ID].Outputs
        /\ StepResults[last.step.ID].Outputs[k] = last.writes[k]

\* C5 as claimed: every pair a step wrote is in its outputs once its body
\* was run, whatever else happened
C5OutputsAlways == (last.idx >= 1 /\ last.ran) => Published

\* C5, amended: every pair a step wrote is in its outputs once its body was
\* run and the read-back of the output file succeeded, whether the body
\* failed or not and whatever continue-on-error says
C5OutputsPublished == (last.idx >= 1 /\ last.ran /\ last.readOk) => Published

\* C5 witness: a step without continue-on-error failed after writing two
\* pairs, and both are in its outputs
C5Witness ==
    /\ FailedHard
    /\ last.readOk
    /\ DOMAIN last.writes = Keys
    /\ DOMAIN StepResults[last.step.ID].Outputs = Keys

IsStep(e) == e[1] = "Step"

\* C6 as claimed: the inner steps of a composite action run once each, in
\* declared order, and all of them have run when the composite executor
\* gets to its end, whatever the steps returned and whether or not a
\* cancellation of the context was observed.
C6AllStepsInOrder ==
    LET ran == SelectSeq(trace, IsStep)
    IN /\ \A i \in 1..Len(ran) : ran[i][2] = ToString(i)
       /\ Len(ran) = Len(returned)
       /\ pc = "compositeSteps" => Len(ran) = stepIdx - 1
       /\ pc \in {"compositeEnd", "done"} => Len(ran) = Len(steps)

\* some executed step returned an error or left a cancelled context behind
Recorded == \E i \in 1..Len(returned) : returned[i].err # Nil \/ returned[i].ctx # Nil

C8Gate ==
    (pc # "init" /\ (jobIf # "true" \/ image = "")) =>
        /\ pc = "done"
        /\ result = Nil
        /\ trace = <<>>
        /\ JobContainer = "nil"
        /\ last = NoStep
        /\ StepResults = EmptyMap

\* C8 witness: the job's condition holds and no runner label is mapped
C8Witness == pc = "done" /\ jobIf = "true" /\ image = "" /\ ~enabled

IsUnit(e) ==
    e[1] \in {"Pull", "Stop", "Create", "Start", "UpdateFromImageEnv",
              "UpdateFromEnv", "Exec", "CopyDir", "Copy"}

C9Order ==
    <<"Pull", "Stop", "Create", "Start", "UpdateFromImageEnv", "UpdateFromEnv",
      "Exec", "CopyDir", "Copy">>

C9OrderNoCopyDir ==
    <<"Pull", "Stop", "Create", "Start", "UpdateFromImageEnv", "UpdateFromEnv",
      "Exec", "Copy">>

\* C9: in container mode the operations of Start are invoked in the order
\* Pull, stale removal, Create, Start, image env, /etc/environment, mkdir,
\* workspace copy, file staging; the workspace copy only when bind-workdir is
\* off and a local checkout was found; stale removal removes nothing under
\* reuse; an operation is invoked only when all before it succeeded, and the
\* error of the one that failed is the result of Start, after which no step
\* runs
C9StartOrder ==
    JobContainer = "docker" =>
        LET u == SelectSeq(StartPart, IsUnit)
            names == Names(u)
            failed == Len(u) > 0 /\ Last(u)[3] # "ok"
        IN /\ IsPrefix(names, C9Order) \/ IsPrefix(names, C9OrderNoCopyDir)
           /\ \A i \in 1..(Len(u) - 1) : u[i][3] = "ok"
           /\ (\E i \in 1..Len(u) : names[i] = "CopyDir") => ~Config.BindWorkdir
           /\ Config.ReuseContainers =>
                 \A i \in 1..Len(StartPart) :
                     StartPart[i][1] \notin {"Remove", "VolumeRemove"}
           /\ pc = "startPipe" =>
                 /\ ~failed
                 /\ pipeErr = Nil
                 /\ unitIdx > 8 =>
                       ((\E i \in 1..Len(u) : names[i] = "CopyDir") <=> copyWorkspace)
           /\ failed =>
                 /\ pc \in {"teardown", "done"}
                 /\ Res(pipeErr) = Last(u)[3]
                 /\ OpPositions(trace, "Step") = {}
           /\ (pc = "steps" \/ OpPositions(trace, "Step") # {}) =>
                 (~failed /\ names \in {C9Order, C9OrderNoCopyDir})

\* C9 witness: Start of the container failed, after Pull, stale removal and
\* Create, and that error ended the start
C9Witness ==
    /\ JobContainer = "docker"
    /\ pc = "teardown"
    /\ Res(pipeErr) = "Start"
    /\ Names(SelectSeq(trace, IsUnit)) = <<"Pull", "Stop", "Create", "Start">>

\* C10: every Stop on an existing handle without reuse invokes Remove; when
\* that succeeded and the job is not in host mode, the removal of the main
\* volume and then of the "-env" volume are both attempted, whatever the
\* first returned; a volume the daemon does not list is no error; in host
\* mode and under reuse no volume removal is attempted
C10Stop ==
    LET stops == OpPositions(trace, "Stop")
    IN /\ \A p \in stops :
            IF JobContainer # "nil" /\ ~Config.ReuseContainers
            THEN /\ After(p, 1)[1] = "Remove"
                 /\ (After(p, 1)[3] = "ok" /\ ~Local) =>
                       /\ After(p, 2)[1] = "VolumeRemove" /\ After(p, 2)[2] = "main"
                       /\ After(p, 3)[1] = "VolumeRemove" /\ After(p, 3)[2] = "env"
                 /\ After(p, 1)[3] # "ok" => After(p, 2)[1] # "VolumeRemove"
            ELSE After(p, 1)[1] \notin {"Remove", "VolumeRemove"}
       /\ (Local \/ Config.ReuseContainers) => OpPositions(trace, "VolumeRemove") = {}
       /\ Config.ReuseContainers => stopBefore \subseteq volumes
       /\ stops # {} =>
            \A k \in {2, 3} :
                LET e == After(Max(stops), k)
                IN (e[1] = "VolumeRemove" /\ e[2] \notin stopBefore) =>
                      e[3] \in {"ok", "VolumeList"}

\* C10 witness: the removal of the main volume failed and the removal of the
\* "-env" volume, which the daemon did not have, was attempted and succeeded
C10Witness ==
    \E i \in 1..Len(trace) :
        /\ trace[i][1] = "VolumeRemove" /\ trace[i][2] = "main" /\ trace[i][3] = "VolumeRemove"
        /\ After(i, 1)[1] = "VolumeRemove" /\ After(i, 1)[2] = "env" /\ After(i, 1)[3] = "ok"
        /\ i > Max(OpPositions(trace, "Stop"))
        /\ "env" \notin stopBefore

\* C11 as claimed: Stop is idempotent. A second or later call of Stop that
\* finds the container and both volumes already removed returns success and
\* leaves the daemon's containers and volumes as they are.
C11StopIdempotent ==
    pc = "stop" =>
        \A k \in 2..Len(returned) :
            LET c == returned[k]
            IN (~c.container /\ c.volumes = {}) =>
                  /\ c.err = Nil
                  /\ ~c.containerAfter
                  /\ c.volumesAfter = {}

\* C12 as claimed: in every interleaving each running job has the container
\* of its name and its named volumes as its own, created by itself and not
\* removed or replaced by a sibling's Start or Stop.
C12OwnResources ==
    pc = "jobs" =>
        \A j \in 1..NumJobs :
            jobs[j].phase = "running" =>
                /\ [name |-> jobContainerName(jobs[j].str), owner |-> j]
                       \in containers
                /\ \A v \in GetMounts(Config) :
                       [name |-> VolumeName(jobs[j].str, v), owner |-> j]
                           \in namedVolumes

\* C13 as claimed: no operation of a RunContext changes a field of the
\* shared Config.
C13ConfigReadOnly == [][Config' = Config]_vars

\* the value of variable k in the three levels: the job's, else the
\* workflow's, else the global one
Layered(layers, k) ==
    IF k \in DOMAIN layers.job THEN layers.job[k]
    ELSE IF k \in DOMAIN layers.workflow THEN layers.workflow[k]
    ELSE layers.global[k]

\* C14: a GetEnv() on a run context without environment returns the
\* variables of the three levels, each with the value of the highest level
\* declaring it (job over workflow over global), and the marker ACT = "true";
\* a later GetEnv() returns the environment as it then is, whatever the image
\* or file seeded in it, not merged again, with ACT = "true".
C14GetEnv ==
    (pc = "env" /\ ret # <<>>) =>
        LET c == ret[1]
            all == DOMAIN envLayers.global \cup DOMAIN envLayers.workflow
                       \cup DOMAIN envLayers.job
        IN /\ c.map["ACT"] = "true"
           /\ Env = [nil |-> FALSE, map |-> c.map]
           /\ c.before.nil =>
                 /\ DOMAIN c.map = all \cup {"ACT"}
                 /\ \A k \in all \ {"ACT"} : c.map[k] = Layered(envLayers, k)
           /\ ~c.before.nil =>
                 /\ DOMAIN c.map = DOMAIN c.before.map
                 /\ \A k \in DOMAIN c.map \ {"ACT"} : c.map[k] = c.before.map[k]

\* the three levels declare K, the environment was computed, the file
\* seeded K and reset the marker, and GetEnv() returned the seeded K and the
\* marker
C14Witness ==
    /\ pc = "env"
    /\ ret # <<>>
    /\ Len(trace) = 3
    /\ trace[1][1] = "GetEnv"
    /\ trace[2] = Op("UpdateFromEnv", "K", Nil)
    /\ "K" \in DOMAIN envLayers.global \cap DOMAIN envLayers.workflow
                  \cap DOMAIN envLayers.job
    /\ "ACT" \in DOMAIN envLayers.job
    /\ ret[1].map["K"] = "s"
    /\ ret[1].map["ACT"] = "true"

\* the number of places of str at which sub occurs
Occurrences(sub, str) ==
    Cardinality({i \in 1..(Len(str) - Len(sub) + 1) :
                    SubSeq(str, i, i + Len(sub) - 1) = sub})

\* C15 as claimed: the name built from a non-empty list of parts has no two
\* consecutive hyphens and neither begins nor ends with a hyphen.
C15NoDoubleHyphen ==
    (pc = "name" /\ ret # <<>>) =>
        LET name == ret[1]
        IN /\ Occurrences(<<"-", "-">>, name) = 0
           /\ name # <<>> => (name[1] # "-" /\ name[Len(name)] # "-")

\* C16 as claimed: a first part that is not the last one and ends in
\* -<digits> leaves that suffix exactly once in the name (no other part
\* having a digit), and what the part contributes to the name is not longer
\* than the budget 30/partCount - 1.
C16SuffixOnceWithinBudget ==
    (/\ pc = "name" /\ ret # <<>>
     /\ Len(args) >= 2
     /\ FindStringSubmatch(args[1]) # <<>>
     /\ \A i \in 2..Len(args) : \A k \in 1..Len(args[i]) : args[i][k] \notin Digits) =>
        LET name == ret[1]
            num == FindStringSubmatch(args[1])
            partLen == (30 \div Len(args)) - 1
        IN /\ Occurrences(num, name) = 1
           /\ Len(ReplaceAll(Join(NameElems(args, 1)))) <= partLen

\* runner label number i of the job, interpolated and lower-cased, is a
\* platform of the table
Matches(job, i) == Platforms(ToLower(Interpolate(job.RunsOn[i]))) # ""

\* C17: platformImage() is the interpolated image of the job's container
\* block when there is one, whatever the runner labels; otherwise the image
\* the platform table gives for the first runner label, in declared order,
\* that interpolated and compared without regard to case is a platform of
\* the table; and empty when no label is.
C17PlatformImage ==
    (pc = "platform" /\ ret # <<>>) =>
        LET job == args
            hits == {i \in 1..Len(job.RunsOn) : Matches(job, i)}
        IN /\ job.HasContainer => ret[1] = Interpolate(job.Image)
           /\ (~job.HasContainer /\ hits = {}) => ret[1] = ""
           /\ (~job.HasContainer /\ hits # {}) =>
                 \E i \in hits :
                    /\ \A k \in hits : i <= k
                    /\ ret[1] = Platforms(ToLower(Interpolate(job.RunsOn[i])))

\* a job without container block whose two labels are both platforms of
\* the table, the first one written with capitals: its image is returned
C17Witness ==
    /\ pc = "platform"
    /\ ret = <<"node:16">>
    /\ ~args.HasContainer
    /\ args.RunsOn = <<"Ubuntu-Latest", "self-hosted">>

\* C18: a declared credentials map without exactly two entries is an
\* error; one with two entries whose username or password is missing or
\* empty, or interpolates to the empty string, is an error; when a declared
\* map is accepted the username and password returned are not empty; when
\* no map is declared the global secrets are returned without error.
C18Credentials ==
    (pc = "credentials" /\ ret # <<>>) =>
        LET r == ret[1]
            c == args.Credentials.map
            declared == args.HasContainer /\ args.Credentials.declared
            empty(k) == \/ k \notin DOMAIN c
                        \/ c[k] = ""
                        \/ Interpolate(c[k]) = ""
        IN /\ (declared /\ Cardinality(DOMAIN c) # 2) => r.err # Nil
           /\ (declared /\ (empty("username") \/ empty("password")))
                 => r.err # Nil
           /\ (declared /\ r.err = Nil) =>
                 /\ r.username # "" /\ r.password # ""
                 /\ r.username = Interpolate(c["username"])
                 /\ r.password = Interpolate(c["password"])
           /\ ~declared =>
                 /\ r.err = Nil
                 /\ r.username = Lookup(args.Secrets, "DOCKER_USERNAME")
                 /\ r.password = Lookup(args.Secrets, "DOCKER_PASSWORD")

\* a declared map of three entries whose username and password are fine
\* was refused
C18Witness ==
    /\ pc = "credentials"
    /\ ret # <<>>
    /\ args.HasContainer /\ args.Credentials.declared
    /\ DOMAIN args.Credentials.map = CredKeys
    /\ args.Credentials.map["username"] = "u"
    /\ args.Credentials.map["password"] = "u"
    /\ ret[1].err # Nil

\* C19: when the read-back of the output file after a step body fails, the
\* step executor returns the read error, also when the body failed; when the
\* read-back succeeds it returns the body's error, or none when the body
\* succeeded or continue-on-error swallowed its error.
C19ReadErrorFirst ==
    (last.idx >= 1 /\ last.ran) =>
        /\ ~last.readOk => last.err = Err("read", last.step.ID)
        /\ last.readOk =>
              last.err = IF last.bodyOk \/ last.step.ContinueOnError THEN Nil
                         ELSE Err("body", last.step.ID)

\* the body of a step without continue-on-error failed, the read-back
\* failed as well, and the read error was returned
C19Witness ==
    /\ FailedHard
    /\ ~last.readOk
    /\ last.err = Err("read", last.step.ID)
    /\ StepResults[last.step.ID].Conclusion = "failure"

\* C20: a step starts from the result success/success with no outputs,
\* which is what is left when it stops before its body for a failed setup;
\* a step whose condition is false gets outcome and conclusion skipped, its
\* body is not run, its outputs stay empty, the output file is left as it
\* was (neither staged nor read back), and its executor returns no error, so
\* that the job pipeline stands at the next step, or at its end.
C20Skipped ==
    /\ []((pc \in {"steps", "teardown", "done"} /\ last.idx >= 1) =>
            /\ (last.cond = "true" /\ ~last.ran) =>
                  StepResults[last.step.ID] =
                      StepResult("success", "success", EmptyMap)
            /\ last.cond = "false" =>
                  /\ StepResults[last.step.ID] =
                         StepResult("skipped", "skipped", EmptyMap)
                  /\ ~last.ran
                  /\ last.err = Nil
                  /\ pipeErr = Nil
                  /\ last.idx < Len(steps) =>
                        (pc = "steps" /\ stepIdx = last.idx + 1))
    /\ [][(last' # last /\ last'.cond = "false") => file' = file]_vars

\* the first step wrote its pairs, the second one was skipped, the output
\* file still has the pairs and the job pipeline is at its end
C20Witness ==
    /\ pc = "teardown"
    /\ last.idx = 2
    /\ last.cond = "false"
    /\ DOMAIN file = Keys
    /\ StepResults[last.step.ID].Conclusion = "skipped"
    /\ pipeErr = Nil

\* C21: a clone starts with an empty StepResults mapping of its own, no
\* current step, no Composite and no Inputs, has the cloned context as Parent
\* and the same Config, Matrix and Run objects; whatever steps the clone
\* executes, the parent keeps its StepResults, CurrentStep, Composite and
\* Inputs
C21Clone ==
    Len(contexts) = 2 =>
        LET p == contexts[1]
            c == contexts[2]
        IN /\ p.StepResults = args[1].StepResults
           /\ heap[p.StepResults] = args[2]
           /\ p.CurrentStep = args[1].CurrentStep
           /\ p.Composite = args[1].Composite
           /\ p.Inputs = args[1].Inputs
           /\ c.Parent = 1
           /\ c.Composite = "nil"
           /\ c.Inputs = "nil"
           /\ c.Config = p.Config /\ c.Matrix = p.Matrix /\ c.Run = p.Run
           /\ c.StepResults # p.StepResults
           /\ stepIdx = 1 =>
                /\ c.CurrentStep = ""
                /\ heap[c.StepResults] = EmptyMap

\* the clone executed two steps and holds a failed result for the step id
\* the parent holds a successful one for, the parent having had a Composite
C21Witness ==
    /\ Len(contexts) = 2
    /\ stepIdx = 3
    /\ contexts[1].Composite = "action"
    /\ \E id \in DOMAIN heap[1] \cap DOMAIN heap[2] :
        /\ heap[1][id].Conclusion = "success"
        /\ heap[2][id].Conclusion = "failure"

\* C22: a conclusion of Failure is terminal: no operation of the pipeline
\* changes the conclusion recorded for a step id once it is Failure
C22FailureTerminal ==
    [][\A id \in DOMAIN StepResults :
          StepResults[id].Conclusion = "failure" =>
              /\ id \in DOMAIN StepResults'
              /\ StepResults'[id].Conclusion = "failure"]_vars

\* C23: a step whose executor returned an error has outcome Failure and
\* conclusion Failure recorded
C23ErrorMeansFailure ==
    (last.idx > 0 /\ last.err # Nil) =>
        /\ StepResults[last.step.ID].Outcome = "failure"
        /\ StepResults[last.step.ID].Conclusion = "failure"

\* C24: the job status is "failure" exactly when some recorded step result
\* has conclusion Failure and "success" otherwise; results that are failed
\* under continue-on-error, skipped or successful leave it "success"
C24JobStatus ==
    LET status == getJobContext(StepResults).Status
        Harmless(s) == \/ s.Outcome = "failure" /\ s.Conclusion = "success"
                       \/ s.Outcome = "skipped" /\ s.Conclusion = "skipped"
                       \/ s.Outcome = "success" /\ s.Conclusion = "success"
    IN /\ status \in {"failure", "success"}
       /\ (status = "failure") <=>
              \E id \in DOMAIN StepResults :
                  StepResults[id].Conclusion = "failure"
       /\ (\A id \in DOMAIN StepResults : Harmless(StepResults[id])) =>
              status = "success"

\* a step failed under continue-on-error, another was skipped, and the job
\* status is "success"
C24Witness ==
    /\ pc = "done"
    /\ \E id \in DOMAIN StepResults :
        /\ StepResults[id].Outcome = "failure"
        /\ StepResults[id].Conclusion = "success"
    /\ \E id \in DOMAIN StepResults : StepResults[id].Outcome = "skipped"
    /\ getJobContext(StepResults).Status = "success"

\* C25: the pairs published as outputs of a step are pairs the output file
\* received during that step's execution
C25OutputsOwnWrites ==
    last.idx > 0 =>
        \A k \in DOMAIN StepResults[last.step.ID].Outputs :
            /\ k \in DOMAIN last.writes
            /\ last.writes[k] = StepResults[last.step.ID].Outputs[k]

\* C26: the teardown of Executor() does not depend on the context of the
\* job: once a job with a container whose context was cancelled has ended,
\* the teardown came after every step, Close was invoked once in it, Stop was
\* invoked in it under auto-removal, and none of its operations failed with
\* the error of a cancelled context
C26TeardownUnderCancellation ==
    (pc = "done" /\ cancelled /\ JobContainer # "nil") =>
        \E t \in DOMAIN trace :
            /\ trace[t] = Op("Teardown", "", Nil)
            /\ \A i \in DOMAIN trace : trace[i][1] = "Step" => i < t
            /\ \E i \in DOMAIN trace :
                /\ i > t
                /\ trace[i][1] = "Close"
                /\ \A j \in DOMAIN trace : trace[j][1] = "Close" => j = i
            /\ Config.AutoRemove =>
                   \E i \in DOMAIN trace : i > t /\ trace[i][1] = "Stop"
            /\ \A i \in DOMAIN trace : i > t => trace[i][3] # "ctx"

\* the context was cancelled after the first step, the pipeline returned the
\* error of the context, and the teardown removed the container and closed it
C26Witness ==
    /\ pc = "done"
    /\ cancelled
    /\ Config.AutoRemove
    /\ Len(returned) >= 1
    /\ returned[1].ctx = Nil
    /\ pipeErr = CtxErr(TRUE)
    /\ ~containerExists
    /\ \E i \in DOMAIN trace : trace[i] = Op("Remove", "", Nil) /\ i > 1
                                  /\ \E t \in 1..(i - 1) : trace[t][1] = "Teardown"
    /\ \E i \in DOMAIN trace : trace[i] = Op("Close", "", Nil)

====
